---- MODULE Spec2Model ----
(***************************************************************************)
(* Connection registry and per-connection workers of                       *)
(* src/src/server/connection.c: the slot table `connections`, the lock     *)
(* `conn_mutex`, the counter `conn_count`, and the threads that run        *)
(* accept_connection, close_all_connections, dump_connections and          *)
(* handle_connection.                                                      *)
(*                                                                         *)
(* Every statement that reads or writes shared state without holding       *)
(* conn_mutex (the loop condition, recv, the handlers, send and close in   *)
(* handle_connection; accept, close and the log line in accept_connection) *)
(* is a step of its own.  pthread_mutex_lock is one step with the          *)
(* statements that follow it under the lock; the loop of                   *)
(* close_all_connections takes one step per slot; pthread_mutex_unlock is  *)
(* a step of its own, so the states in which the lock is held are states   *)
(* of the model.                                                           *)
(*                                                                         *)
(* Sockets are file descriptors: close makes a number free and accept      *)
(* hands out the lowest free number, so a descriptor number stored in a    *)
(* slot can come to name another connection.  fdConn and slotConn record   *)
(* which connection a descriptor and a slot belong to.                     *)
(***************************************************************************)
EXTENDS Integers, Sequences, FiniteSets, TLC

\* ------------------------------------------------------------------ bounds

\* Size of the slot table (100 in the source; the model checks a small table).
MAX_CONNECTIONS == 1

\* Number of client connections accept() hands out over a run.  It exceeds
\* the table size, so that a connection can arrive at a full table.
MaxAccepts == 2

\* Threads of the embedding program that call into the registry (thread ids;
\* worker thread c has id c).  Listener is the listener thread, which calls
\* accept_connection; Other calls close_all_connections, or, in the
\* specification without close_all_connections, accept_connection too.
Listener == MaxAccepts + 1
Other == MaxAccepts + 2
Callers == {Listener, Other}

Slots == 0 .. (MAX_CONNECTIONS - 1)

\* Connection identities, in the order accept() returned them.  The worker
\* thread that pthread_create starts for connection c is worker c.
Conns == 1 .. MaxAccepts

\* File descriptor numbers.  0 is the value of the zero-initialised
\* `socket` field of a slot that was never populated.
Fds == 1 .. MaxAccepts

NoSlot == -1

\* ----------------------------------------------------------------- strings

\* A C string is the sequence of its characters, without the terminating NUL.
\* Indices are 1-based: the pointer s + k is index k + 1.

Min(S) == CHOOSE x \in S : \A y \in S : x <= y

CRLF == <<"\r", "\n">>

\* The characters isspace() accepts, among those the model's buffers hold.
Whitespace == {" ", "\t", "\r", "\n"}

\* n copies of the character c.
Rep(c, n) == [k \in 1 .. n |-> c]

\* s + (i - 1): the string from index i on.
From(s, i) == SubSeq(s, i, Len(s))

\* strncmp(s, pre, strlen(pre)) == 0.
HasPrefix(s, pre) == Len(s) >= Len(pre) /\ \A k \in 1 .. Len(pre) : s[k] = pre[k]

\* strstr(s, pat): the index of the first occurrence of pat in s, 0 for NULL.
MatchAt(s, i, pat) == \A k \in 1 .. Len(pat) : s[i + k - 1] = pat[k]

strstr(s, pat) ==
    LET last == Len(s) - Len(pat) + 1
    IN  IF \E i \in 1 .. last : MatchAt(s, i, pat)
        THEN CHOOSE i \in 1 .. last :
                 MatchAt(s, i, pat) /\ \A j \in 1 .. (i - 1) : ~MatchAt(s, j, pat)
        ELSE 0

\* sscanf skips white space before a %s directive: the first index from i on
\* that holds no white space (Len(s) + 1 at the end of the input).
SkipWs(s, i) ==
    CHOOSE j \in i .. (Len(s) + 1) :
        /\ j = Len(s) + 1 \/ s[j] \notin Whitespace
        /\ \A k \in i .. (j - 1) : s[k] \in Whitespace

\* A %s directive reads up to white space, the end of the input, or its
\* field width: the index after the last character read, reading from a.
RunEnd(s, a, width) ==
    CHOOSE j \in a .. (Len(s) + 1) :
        /\ j = Len(s) + 1 \/ j = a + width \/ s[j] \in Whitespace
        /\ \A k \in a .. (j - 1) : k # a + width /\ s[k] \notin Whitespace

\* A %s directive without a field width.
NoWidth(s) == Len(s) + 1

\* One %s or %<width>s directive applied at index i: whether it stored a
\* string, the string, and where the input continues.
ScanS(s, i, width) ==
    LET a == SkipWs(s, i)
        b == RunEnd(s, a, width)
    IN  [ok |-> b > a, val |-> SubSeq(s, a, b - 1), next |-> b]

\* Ordinary characters of a format must match the input one for one.
ScanLit(s, i, lit) ==
    [ok   |-> i + Len(lit) - 1 <= Len(s) /\ MatchAt(s, i, lit),
     next |-> i + Len(lit)]

\* The string literals of connection.c.
sGET == <<"G", "E", "T">>
sPOST == <<"P", "O", "S", "T">>
sFilePrefix == <<"/", "f", "i", "l", "e", "/">>
sStatus == <<"/", "s", "t", "a", "t", "u", "s">>
sLogin == <<"/", "l", "o", "g", "i", "n">>
sExec == <<"/", "e", "x", "e", "c">>
sUpload == <<"/", "u", "p", "l", "o", "a", "d">>
sUserEq == <<"u", "s", "e", "r", "=">>
sAndPassEq == <<"&", "p", "a", "s", "s", "=">>
sAdmin123 == <<"a", "d", "m", "i", "n", "1", "2", "3">>
sDebug == <<"d", "e", "b", "u", "g">>
sFilenameEq == <<"f", "i", "l", "e", "n", "a", "m", "e", "=">>
sAndContentEq == <<"&", "c", "o", "n", "t", "e", "n", "t", "=">>

\* char method[16], path[256], body[1024] in handle_connection.
METHOD_SIZE == 16
PATH_SIZE == 256
BODY_SIZE == 1024

\* The field width of user=%63s&pass=%63s, and the count of strncpy.
CRED_WIDTH == 63

\* The field width of filename=%255s&.
FILENAME_WIDTH == 255

\* ---------------------------------------------------------------- requests

\* Strings that peers send.
sPUT == <<"P", "U", "T">>
sFileA == <<"/", "f", "i", "l", "e", "/", "a">>
sOther == <<"/", "o", "t", "h", "e", "r">>
sNoSlash == <<"s", "t", "a", "t", "u", "s">>
sHostLine == <<"H", "o", "s", "t", ":", " ", "a">>
sWrong == <<"w", "r", "o", "n", "g">>
sAlice == <<"a", "l", "i", "c", "e">>
sLs == <<"l", "s">>
sUploadBody == <<"f", "i", "l", "e", "n", "a", "m", "e", "=", "f", "&", "c", "o", "n", "t", "e", "n", "t", "=", "x">>
sUploadNoContent == <<"f", "i", "l", "e", "n", "a", "m", "e", "=", "f">>

\* A user name that fills the field width of %63s.
User63 == Rep("u", CRED_WIDTH)

LoginBody(user, pass) == sUserEq \o user \o sAndPassEq \o pass

\* A request as a client writes it: METHOD SP PATH CRLF, the header lines
\* (each ended by CRLF), the CRLF of the blank line, and the body.
Compose(m, p, h, b) == m \o <<" ">> \o p \o CRLF \o h \o CRLF \o b

Methods == {sGET, sPOST, sPUT}

Paths == {sStatus, sLogin, sExec, sUpload, sFileA, sOther}

HeaderBlocks == {<<>>, sHostLine \o CRLF}

Bodies ==
    {<<>>, sLs, sUploadBody, sUploadNoContent,
     LoginBody(User63, sAdmin123), LoginBody(User63, sWrong),
     LoginBody(sAlice, sAdmin123)}

\* Requests of the documented form whose parts are within the buffer sizes.
WellFormed ==
    {Compose(m, p, h, b) : m \in Methods, p \in Paths, h \in HeaderBlocks, b \in Bodies}

\* A request line, with or without header lines, and no blank line.
NoBlankLine ==
    {m \o <<" ">> \o p \o CRLF \o h : m \in {sGET, sPOST}, p \in {sStatus, sExec},
                                       h \in HeaderBlocks}

\* A buffer with no CRLF at all.
NoCrlf == sGET \o <<" ">> \o sStatus

\* First lines with fewer than two tokens, and a path without a leading '/'.
ShortLines ==
    {sGET \o CRLF \o CRLF,
     CRLF \o CRLF,
     sGET \o CRLF \o sHostLine \o CRLF \o CRLF,
     Compose(sGET, sNoSlash, <<>>, <<>>)}

\* Requests with a part that does not fit its buffer together with its NUL.
TooLong ==
    {Compose(Rep("A", METHOD_SIZE + 1), sStatus, <<>>, <<>>),
     Compose(sGET, <<"/">> \o Rep("a", PATH_SIZE - 1), <<>>, <<>>),
     Compose(sPOST, sExec, <<>>, Rep("b", BODY_SIZE + 1))}

\* What one recv can deliver when the model looks at requests one by one.
Buffers == WellFormed \cup NoBlankLine \cup {NoCrlf} \cup ShortLines \cup TooLong

\* What one recv can deliver when the model looks at the registry: a buffer
\* without CRLF, or a login that the credential check accepts.
Requests == {NoCrlf, Compose(sPOST, sLogin, <<>>, LoginBody(User63, sAdmin123))}

\* The zeroed receive buffer.
NoRequest == <<>>

\* --------------------------------------------------------------- responses

\* What a handler's sprintf writes into `response`: the status line and the
\* text after the blank line (`n` is the number /status prints with %d).
Response(status, text) == [status |-> status, text |-> text, n |-> 0]

FileContent == Response("200 OK", "file content")
FileNotFound == Response("404 Not Found", "File not found")
StatusResponse(count) ==
    [status |-> "200 OK", text |-> "Server running, connections: ", n |-> count]
NotFound == Response("404 Not Found", "Not found")
LoginSuccessful == Response("200 OK", "Login successful")
InvalidCredentials == Response("401 Unauthorized", "Invalid credentials")
CommandOutput == Response("200 OK", "command output")
ExecutionFailed == Response("500 Error", "Execution failed")
FileSaved == Response("200 OK", "File saved")
MethodNotAllowed == Response("405 Method Not Allowed", "")

\* No response buffer is in scope.
Unset == Response("unset", "")

\* char response[4096] is declared without an initialiser (line 85).  When no
\* handler writes it, line 164 sends what the stack held: what an earlier
\* iteration left there, or bytes that are no response at all.
Garbage == Response("garbage", "")

Indeterminate ==
    {Garbage, FileNotFound, NotFound, LoginSuccessful, InvalidCredentials,
     ExecutionFailed, FileSaved, MethodNotAllowed}

\* The text of the format strings of lines 99-161.
sHttp11 == <<"H", "T", "T", "P", "/", "1", ".", "1">>
sContentLength ==
    <<"C", "o", "n", "t", "e", "n", "t", "-", "L", "e", "n", "g", "t", "h", ":", " ">>
s200 == <<"2", "0", "0">>
s401 == <<"4", "0", "1">>
s404 == <<"4", "0", "4">>
s405 == <<"4", "0", "5">>
s500 == <<"5", "0", "0">>
sOK == <<"O", "K">>
sUnauthorized == <<"U", "n", "a", "u", "t", "h", "o", "r", "i", "z", "e", "d">>
sNotFound == <<"N", "o", "t", " ", "F", "o", "u", "n", "d">>
sMethodNotAllowed ==
    <<"M", "e", "t", "h", "o", "d", " ", "N", "o", "t", " ", "A", "l", "l", "o", "w",
      "e", "d">>
sError == <<"E", "r", "r", "o", "r">>
sFileNotFoundText ==
    <<"F", "i", "l", "e", " ", "n", "o", "t", " ", "f", "o", "u", "n", "d">>
sNotFoundText == <<"N", "o", "t", " ", "f", "o", "u", "n", "d">>
sLoginSuccessfulText ==
    <<"L", "o", "g", "i", "n", " ", "s", "u", "c", "c", "e", "s", "s", "f", "u", "l">>
sInvalidCredentialsText ==
    <<"I", "n", "v", "a", "l", "i", "d", " ", "c", "r", "e", "d", "e", "n", "t", "i",
      "a", "l", "s">>
sExecutionFailedText ==
    <<"E", "x", "e", "c", "u", "t", "i", "o", "n", " ", "f", "a", "i", "l", "e", "d">>
sFileSavedText == <<"F", "i", "l", "e", " ", "s", "a", "v", "e", "d">>
sServerRunningText ==
    <<"S", "e", "r", "v", "e", "r", " ", "r", "u", "n", "n", "i", "n", "g", ",", " ",
      "c", "o", "n", "n", "e", "c", "t", "i", "o", "n", "s", ":", " ">>

\* The status code and the reason phrase of each status line.
StatusCode(status) ==
    IF status = "200 OK" THEN s200
    ELSE IF status = "401 Unauthorized" THEN s401
    ELSE IF status = "404 Not Found" THEN s404
    ELSE IF status = "405 Method Not Allowed" THEN s405
    ELSE s500

ReasonPhrase(status) ==
    IF status = "200 OK" THEN sOK
    ELSE IF status = "401 Unauthorized" THEN sUnauthorized
    ELSE IF status = "404 Not Found" THEN sNotFound
    ELSE IF status = "405 Method Not Allowed" THEN sMethodNotAllowed
    ELSE sError

\* %d and %zu: the decimal digits of n, with a minus sign when n < 0.
DigitChars == <<"0", "1", "2", "3", "4", "5", "6", "7", "8", "9">>

RECURSIVE Digits(_)
Digits(n) ==
    IF n < 10 THEN <<DigitChars[n + 1]>>
    ELSE Digits(n \div 10) \o <<DigitChars[(n % 10) + 1]>>

Decimal(n) == IF n < 0 THEN <<"-">> \o Digits(-n) ELSE Digits(n)

\* The header lines sprintf writes for the response r carrying `content`
\* (what fread stored, up to its first NUL): Content-Length for a file.
HeaderLines(r, content) ==
    IF r.text = "file content"
    THEN sContentLength \o Decimal(Len(content)) \o CRLF
    ELSE <<>>

\* The bytes sprintf writes after the blank line.
BodyBytes(r, content) ==
    IF r.text \in {"file content", "command output"} THEN content
    ELSE IF r.text = "Server running, connections: "
    THEN sServerRunningText \o Decimal(r.n)
    ELSE IF r.text = "File not found" THEN sFileNotFoundText
    ELSE IF r.text = "Not found" THEN sNotFoundText
    ELSE IF r.text = "Login successful" THEN sLoginSuccessfulText
    ELSE IF r.text = "Invalid credentials" THEN sInvalidCredentialsText
    ELSE IF r.text = "Execution failed" THEN sExecutionFailedText
    ELSE IF r.text = "File saved" THEN sFileSavedText
    ELSE <<>>

\* The string sprintf leaves in `response` (lines 99-161): the status line,
\* the header lines, the blank line, the body.
Serialize(r, content) ==
    sHttp11 \o <<" ">> \o StatusCode(r.status) \o <<" ">> \o ReasonPhrase(r.status)
        \o CRLF \o HeaderLines(r, content) \o CRLF \o BodyBytes(r, content)

\* The most fread stores into content[2048] and output[2048].
CONTENT_MAX == 2047

\* The largest value of conn_count a full table gives (MAX_CONNECTIONS in the
\* source).
TABLE_SIZE == 100

\* What a file or a command's output can hold, as sprintf's %s copies it.
Contents ==
    {<<>>, <<"x">>, <<"a", " ", "b">>, <<" ", "x">>, <<"a", "\r", "\n">>,
     <<"a", "\r", "\n", "\r", "\n", "b">>, <<"\r", "\n", "\r", "\n">>,
     Rep("c", BODY_SIZE - 1), Rep("c", BODY_SIZE), Rep("c", CONTENT_MAX)}

\* The responses the handlers write, each with the content it carries.
Serialized ==
    {[response |-> r, content |-> <<>>] :
        r \in {FileNotFound, NotFound, LoginSuccessful, InvalidCredentials,
               ExecutionFailed, FileSaved, MethodNotAllowed}}
    \cup {[response |-> StatusResponse(n), content |-> <<>>] :
             n \in -MaxAccepts .. TABLE_SIZE}
    \cup {[response |-> r, content |-> c] :
             r \in {FileContent, CommandOutput}, c \in Contents}

\* ------------------------------------------------------------------- state

VARIABLES
    connections,   \* static Connection connections[MAX_CONNECTIONS]
    conn_mutex,    \* owner of conn_mutex: 0 (free) or a thread id
    conn_count,    \* static int conn_count
    fdConn,        \* descriptor table: fd -> connection it is open on, 0 = closed
    heap,          \* strdup'ed client_ip string of each connection
    nextConn,      \* connections accept() has returned so far
    slotConn,      \* history: the connection last accepted into each slot
    caller,        \* per calling thread: position and locals
    worker,        \* per worker thread: position and locals of handle_connection
    observed,      \* history: the table states that have existed since the
                   \* running dump_connections call began
    wire,          \* a response on its way to a peer: the record a handler
                   \* filled in, the bytes sprintf made of it, and what
                   \* parse_request makes of the bytes
    cache_table,   \* static CacheEntry* cache_table[CACHE_SIZE]: the chain of
                   \* each bucket, head first
    cache_reader,  \* the thread inside cache_copy_value: position and locals
    cache_writer,  \* the thread that calls cache_set, cache_delete,
                   \* cache_clear and cache_evict_expired: the call and its result
    g_server,      \* static UDPServer g_server (main.c)
    app            \* the main thread in the --server branch: position and locals

\* The state of utils/cache.c.
cacheVars == <<cache_table, cache_reader, cache_writer>>

\* The state of main.c and server/udp_server.c.
udpVars == <<g_server, app>>

vars == <<connections, conn_mutex, conn_count, fdConn, heap, nextConn, slotConn,
          caller, worker, observed, wire, cacheVars, udpVars>>

\* typedef struct { ... } Connection, zero-initialised (static storage).
\* The pthread_t field is never read and is left out.
ZeroConnection ==
    [socket |-> 0, client_ip |-> 0, authenticated |-> 0, username |-> <<>>, active |-> 0]

\* `rd_ip`, `rd_auth` and `text` are what dump_connections has read of the row
\* it is printing (<<>>: not read yet); `rows` are the rows it has printed.
IdleCaller ==
    [pc |-> "idle", client_socket |-> 0, cid |-> 0, slot |-> NoSlot, i |-> 0,
     was |-> {}, ret |-> <<>>, rd_ip |-> <<>>, rd_auth |-> <<>>, text |-> <<>>,
     rows |-> <<>>]

\* `parsed` is <<0>> once parse_request has returned 0 in this iteration
\* (<<>> otherwise); `io` is what fopen or popen returned in a handler
\* ("none" when none was called); `releases` counts the times the worker has
\* run lines 170-176; `from` is the connection whose socket the buffer in
\* `req` was received on (0: no buffer).
NoWorker ==
    [pc |-> "none", slot |-> NoSlot, bytes |-> <<>>, req |-> NoRequest, from |-> 0,
     parsed |-> <<>>, method |-> <<>>, path |-> <<>>, body |-> <<>>,
     io |-> "none", response |-> Unset, releases |-> 0]

\* No response is on its way.
NoWire == [pc |-> "idle", response |-> Unset, content |-> <<>>, bytes |-> <<>>]

InitRegistry ==
    /\ connections = [s \in Slots |-> ZeroConnection]
    /\ conn_mutex = 0
    /\ conn_count = 0
    /\ fdConn = [f \in Fds |-> 0]
    /\ heap = [c \in Conns |-> "unalloc"]
    /\ nextConn = 0
    /\ slotConn = [s \in Slots |-> 0]
    /\ caller = [t \in Callers |-> IdleCaller]
    /\ worker = [w \in Conns |-> NoWorker]
    /\ observed = {}

\* ---------------------------------------------------------- utils/cache.c

CACHE_SIZE == 256
MAX_KEY_LEN == 64

\* The largest time to live a cache_set of the model passes.
MaxTtl == 2

\* The character codes of the characters the keys of the model are made of.
CharCode(c) ==
    CASE c = "a" -> 97
      [] c = "b" -> 98
      [] c = "r" -> 114
      [] c = "1" -> 49

\* The loop of cache_hash, lines 29-32: hash = hash * 31 + *key++.  The
\* arithmetic is unsigned and wraps at 2^32, a multiple of CACHE_SIZE, so
\* reducing modulo CACHE_SIZE at every round gives the result of line 33.
RECURSIVE HashFrom(_, _)
HashFrom(key, hash) ==
    IF key = <<>> THEN hash
    ELSE HashFrom(Tail(key), (hash * 31 + CharCode(Head(key))) % CACHE_SIZE)

\* static unsigned int cache_hash(const char* key), lines 28-34.
cache_hash(key) == HashFrom(key, 0) % CACHE_SIZE

\* Three keys, the first two in one bucket.
kA == <<"a">>
kOneR == <<"1", "r">>
kB == <<"b">>
CacheKeys == {kA, kOneR, kB}

\* The values and times to live cache_set is called with.
CacheValues == {<<"x">>, <<"y", "y">>}
TTLs == -1 .. MaxTtl

\* The buckets the keys of the model hash to; every other bucket of
\* cache_table stays NULL.
Buckets == {cache_hash(k) : k \in CacheKeys}

\* No call of cache_copy_value is running.
IdleReader ==
    [pc |-> "idle", key |-> <<>>, value |-> <<>>, dangling |-> FALSE, copy |-> <<>>]

\* No call of the writing thread is running.
IdleWriter ==
    [pc |-> "idle", op |-> "none", key |-> <<>>, value |-> <<>>, ttl |-> 0, ret |-> <<>>]

\* cache_init, lines 37-47: every bucket NULL.
InitCache ==
    /\ cache_table = [b \in Buckets |-> <<>>]
    /\ cache_reader = IdleReader
    /\ cache_writer = IdleWriter

\* ------------------------------------------ server/udp_server.c and main.c

TEMP_SIZE == 64
RESPONSE_BUFFER_SIZE == 256

\* The number of commands the main loop reads in the model.
MaxCommands == 3

\* main, lines 25-29, called with --server: udp_server_init has set
\* is_running to 0 (udp_server.c:27) and nothing has been read yet.  `rets`
\* lists what udp_server_process_request has returned so far.
InitServer ==
    /\ g_server = [is_running |-> 0]
    /\ app = [pc |-> "start", input |-> <<>>, rets |-> <<>>]

Init == InitRegistry /\ wire = NoWire /\ InitCache /\ InitServer

\* ---------------------------------------------------------------- helpers

\* A scan that finds no slot, whatever the table holds.
find_free_slot_finds_none == NoSlot

\* A find_free_slot that hands out slot 0 when the table is full.
find_free_slot_reuses_first ==
    LET free == {s \in Slots : connections[s].active = 0}
    IN  IF free = {} THEN 0 ELSE Min(free)

\* static int find_free_slot(void): the lowest index with active == 0, or -1.
find_free_slot ==
    LET free == {s \in Slots : connections[s].active = 0}
    IN  IF free = {} THEN NoSlot ELSE Min(free)

\* accept(2) returns the lowest-numbered descriptor that is not open.
LowestFreeFd == Min({f \in Fds : fdConn[f] = 0})

\* close(fd): the descriptor is closed afterwards whatever it was before
\* (a close of a descriptor that is not open fails with EBADF).
CloseFd(tbl, fd) == IF fd \in Fds THEN [tbl EXCEPT ![fd] = 0] ELSE tbl

\* The connection a descriptor is open on (0: none).
ConnOfFd(fd) == IF fd \in Fds THEN fdConn[fd] ELSE 0

\* The socket of connection c is open: some descriptor refers to it.
SocketOpen(c) == \E f \in Fds : fdConn[f] = c

ActiveSlots == {s \in Slots : connections[s].active = 1}

\* Worker threads that were started and have not returned.
LiveWorkers == {w \in Conns : worker[w].pc \notin {"none", "done"}}

WorkersOf(s) == {w \in LiveWorkers : worker[w].slot = s}

\* The positions at which dump_connections is reading the table.
DumpReading == {"d_loop", "d_args", "d_ip", "d_user"}

\* The history of table states while a dump_connections call is reading:
\* a step that leaves the table as T adds T.
Observed(T) ==
    IF \E t \in Callers : caller[t].pc \in DumpReading
    THEN observed \cup {T}
    ELSE observed

\* ------------------------------------------------------ accept_connection

\* Line 187: accept() returns a new descriptor for the next client.
accept_connection_accept(t) ==
    /\ caller[t].pc = "idle"
    /\ nextConn < MaxAccepts
    /\ nextConn' = nextConn + 1
    /\ fdConn' = [fdConn EXCEPT ![LowestFreeFd] = nextConn + 1]
    /\ caller' = [caller EXCEPT ![t] = [IdleCaller EXCEPT !.pc = "a_acquire",
                                           !.client_socket = LowestFreeFd,
                                           !.cid = nextConn + 1]]
    /\ UNCHANGED <<connections, conn_mutex, conn_count, heap, slotConn, worker,
                   observed, wire, cacheVars, udpVars>>

\* Lines 187-190: accept() fails, accept_connection returns -1.
accept_connection_accept_fails(t) ==
    /\ caller[t].pc = "idle"
    /\ caller' = [caller EXCEPT ![t] = [IdleCaller EXCEPT !.pc = "a_return", !.ret = <<-1>>]]
    /\ UNCHANGED <<connections, conn_mutex, conn_count, fdConn, heap, nextConn,
                   slotConn, worker, observed, wire, cacheVars, udpVars>>

\* Lines 201-204: the slot is populated; username is not written.
Populate(c, fd, cid) ==
    [c EXCEPT !.socket = fd, !.client_ip = cid, !.authenticated = 0, !.active = 1]

\* Line 205: conn_count++.
AcquireCount(n) == n + 1

\* Lines 192-210: pthread_mutex_lock(&conn_mutex), then, holding the lock,
\* find_free_slot; with no free slot nothing is written; otherwise the slot is
\* populated, conn_count incremented and pthread_create called.
\* pthread_create's result is not checked: when it fails (created = FALSE)
\* no worker runs.
accept_connection_acquire(t) ==
    /\ caller[t].pc = "a_acquire"
    /\ conn_mutex = 0
    /\ conn_mutex' = t
    /\ LET slot == find_free_slot
           me   == caller[t]
       IN  IF slot < 0
           THEN /\ caller' = [caller EXCEPT ![t].slot = slot, ![t].pc = "a_unlock"]
                /\ UNCHANGED <<connections, conn_count, heap, slotConn, worker>>
           ELSE /\ connections' = [connections EXCEPT
                                     ![slot] = Populate(@, me.client_socket, me.cid)]
                /\ heap' = [heap EXCEPT ![me.cid] = "live"]
                /\ conn_count' = AcquireCount(conn_count)
                /\ slotConn' = [slotConn EXCEPT ![slot] = me.cid]
                /\ \E created \in BOOLEAN :
                     worker' = IF created
                               THEN [worker EXCEPT ![me.cid] =
                                       [NoWorker EXCEPT !.pc = "loop", !.slot = slot]]
                               ELSE worker
                /\ caller' = [caller EXCEPT ![t].slot = slot, ![t].pc = "a_unlock"]
    /\ UNCHANGED <<fdConn, nextConn>>
    /\ observed' = Observed(connections')
    /\ UNCHANGED <<wire, cacheVars, udpVars>>

\* An accept_connection that goes on without releasing conn_mutex.
accept_connection_keeps_lock(t) ==
    /\ caller[t].pc = "a_unlock"
    /\ conn_mutex = t
    /\ caller' = [caller EXCEPT ![t].pc = IF caller[t].slot < 0 THEN "a_close"
                                                                ELSE "a_print"]
    /\ UNCHANGED <<connections, conn_mutex, conn_count, fdConn, heap, nextConn,
                   slotConn, worker, observed, wire, cacheVars, udpVars>>

\* Lines 196 and 212: pthread_mutex_unlock(&conn_mutex).
accept_connection_unlock(t) ==
    /\ caller[t].pc = "a_unlock"
    /\ conn_mutex = t
    /\ conn_mutex' = 0
    /\ caller' = [caller EXCEPT ![t].pc = IF caller[t].slot < 0 THEN "a_close"
                                                                ELSE "a_print"]
    /\ UNCHANGED <<connections, conn_count, fdConn, heap, nextConn, slotConn, worker,
                   observed, wire, cacheVars, udpVars>>

\* Lines 197-198: close(client_socket); return -1.
accept_connection_reject(t) ==
    /\ caller[t].pc = "a_close"
    /\ fdConn' = CloseFd(fdConn, caller[t].client_socket)
    /\ caller' = [caller EXCEPT ![t].pc = "a_return", ![t].ret = <<-1>>]
    /\ UNCHANGED <<connections, conn_mutex, conn_count, heap, nextConn, slotConn, worker,
                   observed, wire, cacheVars, udpVars>>

\* Lines 214-215: the log line reads connections[slot].client_ip without
\* the lock; return slot.
accept_connection_print(t) ==
    /\ caller[t].pc = "a_print"
    /\ caller' = [caller EXCEPT ![t].pc = "a_return", ![t].ret = <<caller[t].slot>>]
    /\ UNCHANGED <<connections, conn_mutex, conn_count, fdConn, heap, nextConn,
                   slotConn, worker, observed, wire, cacheVars, udpVars>>

\* accept_connection has returned; the thread is free to call again.
accept_connection_return(t) ==
    /\ caller[t].pc = "a_return"
    /\ caller' = [caller EXCEPT ![t] = IdleCaller]
    /\ UNCHANGED <<connections, conn_mutex, conn_count, fdConn, heap, nextConn,
                   slotConn, worker, observed, wire, cacheVars, udpVars>>

\* -------------------------------------------------- close_all_connections

\* Line 220: pthread_mutex_lock(&conn_mutex).  `was` records the connections
\* whose slots are active when the lock is taken.
close_all_connections_lock(t) ==
    /\ caller[t].pc = "idle"
    /\ conn_mutex = 0
    /\ conn_mutex' = t
    /\ caller' = [caller EXCEPT ![t] = [IdleCaller EXCEPT !.pc = "c_loop", !.i = 0,
                                           !.was = {slotConn[s] : s \in ActiveSlots}]]
    /\ UNCHANGED <<connections, conn_count, fdConn, heap, nextConn, slotConn, worker,
                   observed, wire, cacheVars, udpVars>>

\* A loop body that closes the socket and leaves the slot active.
CloseAllSlot_keeps_active(c) == c

\* Line 225: connections[i].active = 0; no other field is written.
CloseAllSlot(c) == [c EXCEPT !.active = 0]

\* Lines 222-228: one iteration of the loop over the table; after the last
\* one, conn_count = 0.
close_all_connections_loop(t) ==
    /\ caller[t].pc = "c_loop"
    /\ conn_mutex = t
    /\ LET i == caller[t].i
       IN  IF i < MAX_CONNECTIONS
           THEN /\ IF connections[i].active = 1
                   THEN /\ fdConn' = CloseFd(fdConn, connections[i].socket)
                        /\ connections' = [connections EXCEPT ![i] = CloseAllSlot(@)]
                   ELSE UNCHANGED <<fdConn, connections>>
                /\ caller' = [caller EXCEPT ![t].i = i + 1]
                /\ UNCHANGED conn_count
           ELSE /\ conn_count' = 0
                /\ caller' = [caller EXCEPT ![t].pc = "c_unlock"]
                /\ UNCHANGED <<fdConn, connections>>
    /\ UNCHANGED <<conn_mutex, heap, nextConn, slotConn, worker>>
    /\ observed' = Observed(connections')
    /\ UNCHANGED <<wire, cacheVars, udpVars>>

\* A close_all_connections that joins the workers before it unlocks: it
\* goes on only when no worker of a connection it closed is left.
close_all_connections_joins_workers(t) ==
    /\ caller[t].pc = "c_unlock"
    /\ conn_mutex = t
    /\ \A w \in caller[t].was : worker[w].pc \in {"none", "done"}
    /\ conn_mutex' = 0
    /\ caller' = [caller EXCEPT ![t] = IdleCaller]
    /\ UNCHANGED <<connections, conn_count, fdConn, heap, nextConn, slotConn, worker,
                   observed, wire, cacheVars, udpVars>>

\* Line 230: pthread_mutex_unlock(&conn_mutex); the function returns.
close_all_connections_unlock(t) ==
    /\ caller[t].pc = "c_unlock"
    /\ conn_mutex = t
    /\ conn_mutex' = 0
    /\ caller' = [caller EXCEPT ![t] = IdleCaller]
    /\ UNCHANGED <<connections, conn_count, fdConn, heap, nextConn, slotConn, worker,
                   observed, wire, cacheVars, udpVars>>

\* ------------------------------------------------------- dump_connections

\* Line 235: the header is printed; the loop starts at slot 0.  No lock is
\* taken anywhere in dump_connections.
dump_connections_begin(t) ==
    /\ caller[t].pc = "idle"
    /\ caller' = [caller EXCEPT ![t] = [IdleCaller EXCEPT !.pc = "d_loop", !.i = 0]]
    /\ observed' = {connections}
    /\ UNCHANGED <<wire, cacheVars, udpVars>>
    /\ UNCHANGED <<connections, conn_mutex, conn_count, fdConn, heap, nextConn,
                   slotConn, worker>>

\* Lines 236-237: the loop condition, and the read of connections[i].active.
\* Line 245: after the last slot the footer is printed.
dump_connections_loop(t) ==
    /\ caller[t].pc = "d_loop"
    /\ LET i == caller[t].i
       IN  caller' = [caller EXCEPT
                        ![t].pc = IF i >= MAX_CONNECTIONS THEN "d_done"
                                  ELSE IF connections[i].active = 1 THEN "d_args"
                                  ELSE "d_loop",
                        ![t].i = IF i < MAX_CONNECTIONS /\ connections[i].active = 0
                                 THEN i + 1 ELSE i]
    /\ UNCHANGED <<connections, conn_mutex, conn_count, fdConn, heap, nextConn,
                   slotConn, worker, observed, wire, cacheVars, udpVars>>

\* Lines 240-241: the arguments of printf that are loaded from the slot, the
\* pointer client_ip and the int authenticated, in the order the compiler
\* chose (the order of evaluation of arguments is unspecified).
dump_connections_arg(t) ==
    /\ caller[t].pc = "d_args"
    /\ LET me == caller[t]
           c  == connections[me.i]
       IN  \/ /\ me.rd_ip = <<>>
              /\ caller' = [caller EXCEPT
                               ![t].rd_ip = <<c.client_ip>>,
                               ![t].pc = IF me.rd_auth # <<>> THEN "d_ip" ELSE "d_args"]
           \/ /\ me.rd_auth = <<>>
              /\ caller' = [caller EXCEPT
                               ![t].rd_auth = <<c.authenticated>>,
                               ![t].pc = IF me.rd_ip # <<>> THEN "d_ip" ELSE "d_args"]
    /\ UNCHANGED <<connections, conn_mutex, conn_count, fdConn, heap, nextConn,
                   slotConn, worker, observed, wire, cacheVars, udpVars>>

\* The pointer p is NULL, or the string it pointed to has been freed.
Dangling(p) == IF p = 0 THEN TRUE ELSE heap[p] # "live"

\* What %s prints for the pointer p: the address string of connection p while
\* the strdup'ed string is live.  A NULL pointer and a pointer to freed
\* memory are undefined behaviour: text that is no address (0), or whatever
\* the memory holds by then.
AddressText(p) ==
    IF ~Dangling(p) THEN {p}
    ELSE IF p = 0 THEN {0}
    ELSE {0} \cup Conns

\* Line 238, inside printf: the first %s reads the string client_ip points
\* to; on a pointer that is NULL or freed the process may also be killed.
dump_connections_ip(t) ==
    /\ caller[t].pc = "d_ip"
    /\ LET p == caller[t].rd_ip[1]
       IN  \/ \E v \in AddressText(p) :
                 caller' = [caller EXCEPT ![t].text = <<v>>, ![t].pc = "d_user"]
           \/ /\ Dangling(p)
              /\ caller' = [caller EXCEPT ![t].pc = "d_abort"]
    /\ UNCHANGED <<connections, conn_mutex, conn_count, fdConn, heap, nextConn,
                   slotConn, worker, observed, wire, cacheVars, udpVars>>

\* The row printf writes for slot i from what was read.
Row(i, text, auth, user) ==
    [slot |-> i, client_ip |-> text, authenticated |-> auth, username |-> user]

\* Lines 238-243, inside printf: the second %s reads connections[i].username,
\* the row is written, and the loop goes on to the next slot.
dump_connections_user(t) ==
    /\ caller[t].pc = "d_user"
    /\ LET me == caller[t]
       IN  caller' = [caller EXCEPT
                        ![t].rows = Append(@, Row(me.i, me.text[1], me.rd_auth[1],
                                                  connections[me.i].username)),
                        ![t].rd_ip = <<>>,
                        ![t].rd_auth = <<>>,
                        ![t].text = <<>>,
                        ![t].i = me.i + 1,
                        ![t].pc = "d_loop"]
    /\ UNCHANGED <<connections, conn_mutex, conn_count, fdConn, heap, nextConn,
                   slotConn, worker, observed, wire, cacheVars, udpVars>>

\* Line 246: dump_connections returns.
dump_connections_return(t) ==
    /\ caller[t].pc = "d_done"
    /\ caller' = [caller EXCEPT ![t] = IdleCaller]
    /\ observed' = {}
    /\ UNCHANGED <<wire, cacheVars, udpVars>>
    /\ UNCHANGED <<connections, conn_mutex, conn_count, fdConn, heap, nextConn,
                   slotConn, worker>>

\* ------------------------------------------------------ handle_connection

\* A parse_request that copies the body from two characters too early.
parse_request_body_off_by_two(raw) ==
    IF strstr(raw, CRLF) = 0
    THEN [ret |-> -1, method |-> <<>>, path |-> <<>>, body |-> <<>>]
    ELSE LET m   == ScanS(raw, 1, NoWidth(raw))
             p   == ScanS(raw, m.next, NoWidth(raw))
             sep == strstr(raw, CRLF \o CRLF)
         IN  [ret    |-> 0,
              method |-> IF m.ok THEN m.val ELSE <<>>,
              path   |-> IF m.ok /\ p.ok THEN p.val ELSE <<>>,
              body   |-> IF sep = 0 THEN <<>> ELSE From(raw, sep + 2)]

\* int parse_request(raw, method, path, body), lines 43-59: the value it
\* returns and what it leaves in the three zeroed buffers.  Without a CRLF in
\* raw it returns -1 and writes nothing.  Otherwise sscanf(raw, "%s %s")
\* stores the first two white-space-delimited strings of raw (its result is
\* not looked at, and a string it does not find leaves its buffer zeroed),
\* strcpy copies what follows the first CRLF CRLF, and the result is 0.
parse_request(raw) ==
    IF strstr(raw, CRLF) = 0
    THEN [ret |-> -1, method |-> <<>>, path |-> <<>>, body |-> <<>>]
    ELSE LET m   == ScanS(raw, 1, NoWidth(raw))
             p   == ScanS(raw, m.next, NoWidth(raw))
             sep == strstr(raw, CRLF \o CRLF)
         IN  [ret    |-> 0,
              method |-> IF m.ok THEN m.val ELSE <<>>,
              path   |-> IF m.ok /\ p.ok THEN p.val ELSE <<>>,
              body   |-> IF sep = 0 THEN <<>> ELSE From(raw, sep + 4)]

\* parse_request applied to every buffer of the model, computed once.
Parsed == [raw \in Buffers |-> parse_request(raw)]

\* sscanf and strcpy write a string and its NUL whatever the size of the
\* buffer: a string of the buffer's size or more is written past its end.
Overflows(p) ==
    \/ Len(p.method) >= METHOD_SIZE
    \/ Len(p.path) >= PATH_SIZE
    \/ Len(p.body) >= BODY_SIZE

\* sscanf(body, "user=%63s&pass=%63s", username, password), line 114: the
\* number of strings stored, and the strings.
sscanf_login(body) ==
    LET l1 == ScanLit(body, 1, sUserEq)
        u  == ScanS(body, l1.next, CRED_WIDTH)
        l2 == ScanLit(body, u.next, sAndPassEq)
        pw == ScanS(body, l2.next, CRED_WIDTH)
    IN  IF ~l1.ok \/ ~u.ok
        THEN [n |-> 0, username |-> <<>>, password |-> <<>>]
        ELSE IF ~l2.ok \/ ~pw.ok
        THEN [n |-> 1, username |-> u.val, password |-> <<>>]
        ELSE [n |-> 2, username |-> u.val, password |-> pw.val]

\* sscanf_login applied to every body parse_request produces, computed once.
ScannedLogin == [body \in {Parsed[raw].body : raw \in Buffers} |-> sscanf_login(body)]

\* sscanf(body, "filename=%255s&", filename), line 143: the number of strings
\* stored.
sscanf_filename(body) ==
    LET l1 == ScanLit(body, 1, sFilenameEq)
    IN  IF l1.ok /\ ScanS(body, l1.next, FILENAME_WIDTH).ok THEN 1 ELSE 0

\* Lines 117-118: the credential check.
CredentialsAccepted(l) == l.password = sAdmin123 \/ l.username = sDebug

\* What a handler can leave behind: the result of the fopen or popen it
\* called ("none" when it called neither), the contents of `response`, and
\* the user name an accepted login stores in the slot (<<>> for no write,
\* else <<username>>).
Outcome(io, response) == [io |-> io, response |-> response, login |-> <<>>]

\* A path through the handlers on which no sprintf runs.
NotWritten == {Outcome("none", r) : r \in Indeterminate}

\* A GET handler that writes no response when fopen fails.
HandleGet_silent_on_fopen_failure(path, count) ==
    IF HasPrefix(path, sFilePrefix)
    THEN {Outcome("ok", FileContent)} \cup {Outcome("fail", r) : r \in Indeterminate}
    ELSE IF path = sStatus
    THEN {Outcome("none", StatusResponse(count))}
    ELSE {Outcome("none", NotFound)}

\* Lines 87-110, method GET.
HandleGet(path, count) ==
    IF HasPrefix(path, sFilePrefix)
    THEN {Outcome("ok", FileContent), Outcome("fail", FileNotFound)}
    ELSE IF path = sStatus
    THEN {Outcome("none", StatusResponse(count))}
    ELSE {Outcome("none", NotFound)}

\* A login handler that marks the slot authenticated on rejected credentials
\* too.
HandleLogin_authenticates_rejected(body) ==
    LET l == ScannedLogin[body]
    IN  IF l.n # 2 THEN NotWritten
        ELSE IF CredentialsAccepted(l)
        THEN {[Outcome("none", LoginSuccessful) EXCEPT !.login = <<l.username>>]}
        ELSE {[Outcome("none", InvalidCredentials) EXCEPT !.login = <<l.username>>]}

\* A login handler that copies the password into the slot.
HandleLogin_stores_password(body) ==
    LET l == ScannedLogin[body]
    IN  IF l.n # 2 THEN NotWritten
        ELSE IF CredentialsAccepted(l)
        THEN {[Outcome("none", LoginSuccessful) EXCEPT !.login = <<l.password>>]}
        ELSE {Outcome("none", InvalidCredentials)}

\* Lines 112-126, POST /login: only when sscanf stored both strings is
\* anything written; an accepted login sets conn->authenticated and copies
\* the user name into conn->username.
HandleLogin(body) ==
    LET l == ScannedLogin[body]
    IN  IF l.n # 2 THEN NotWritten
        ELSE IF CredentialsAccepted(l)
        THEN {[Outcome("none", LoginSuccessful) EXCEPT !.login = <<l.username>>]}
        ELSE {Outcome("none", InvalidCredentials)}

\* Lines 127-140, POST /exec.
HandleExec(body) ==
    IF Len(body) > 0
    THEN {Outcome("ok", CommandOutput), Outcome("fail", ExecutionFailed)}
    ELSE NotWritten

\* Lines 141-155, POST /upload.
HandleUpload(body) ==
    IF sscanf_filename(body) = 1 /\ strstr(body, sAndContentEq) # 0
    THEN {Outcome("ok", FileSaved)} \cup {Outcome("fail", r) : r \in Indeterminate}
    ELSE NotWritten

\* Lines 111-159, method POST.
HandlePost(path, body) ==
    IF path = sLogin THEN HandleLogin(body)
    ELSE IF path = sExec THEN HandleExec(body)
    ELSE IF path = sUpload THEN HandleUpload(body)
    ELSE {Outcome("none", NotFound)}

\* A dispatch that answers an unknown method like an unknown path.
Dispatch_unknown_method_404(p, count) ==
    IF p.method = sGET THEN HandleGet(p.path, count)
    ELSE IF p.method = sPOST THEN HandlePost(p.path, p.body)
    ELSE {Outcome("none", NotFound)}

\* Lines 87-162: the if-else chain over method and path.
Dispatch(p, count) ==
    IF p.method = sGET THEN HandleGet(p.path, count)
    ELSE IF p.method = sPOST THEN HandlePost(p.path, p.body)
    ELSE {Outcome("none", MethodNotAllowed)}

\* A worker that goes on to send whatever parse_request returned.
AfterParse_sends(ret) == "send"

\* A worker that breaks out of its loop on a buffer it cannot parse.
AfterParse_breaks(ret) == IF ret = 0 THEN "send" ELSE "close"

\* Lines 84 and 164-166: after parse_request returned 0 the handlers run and
\* the response is sent; after any other result the loop starts over.
AfterParse(ret) == IF ret = 0 THEN "send" ELSE "loop"

\* Line 69: while (conn->active), read without the lock: on to recv, or out
\* of the loop.
LoopCondition(slot) == IF connections[slot].active = 1 THEN "recv" ELSE "close"

handle_connection_loop(w) ==
    /\ worker[w].pc = "loop"
    /\ worker' = [worker EXCEPT ![w].pc = LoopCondition(worker[w].slot)]
    /\ UNCHANGED <<connections, conn_mutex, conn_count, fdConn, heap, nextConn,
                   slotConn, caller, observed, wire, cacheVars, udpVars>>

\* Lines 72-76: recv(conn->socket, ...) on the descriptor the slot holds now.
\* On a descriptor that is not open recv fails; on an open one the peer
\* decides: data (one of the buffers in R), end of stream (0) or an error (-1).
Recv(w, R) ==
    /\ worker[w].pc = "recv"
    /\ LET fd == connections[worker[w].slot].socket
       IN  \/ /\ ConnOfFd(fd) # 0
              /\ \E r \in R :
                   worker' = [worker EXCEPT ![w].pc = "process", ![w].bytes = <<1>>,
                                            ![w].req = r, ![w].from = ConnOfFd(fd)]
           \/ /\ ConnOfFd(fd) # 0
              /\ worker' = [worker EXCEPT ![w].pc = "close", ![w].bytes = <<0>>]
           \/ worker' = [worker EXCEPT ![w].pc = "close", ![w].bytes = <<-1>>]
    /\ UNCHANGED <<connections, conn_mutex, conn_count, fdConn, heap, nextConn,
                   slotConn, caller, observed, wire, cacheVars, udpVars>>

handle_connection_recv(w) == Recv(w, Requests)

\* The same step with every buffer of the request model.
handle_connection_recv_any(w) == Recv(w, Buffers)

\* Lines 87-162 after parse_request returned 0 with p in the three buffers:
\* a handler runs, reading conn_count without the lock, and an accepted login
\* writes the slot.
RunHandlers(w, p) ==
    \E o \in Dispatch(p, conn_count) :
        /\ worker' = [worker EXCEPT ![w].pc = AfterParse(p.ret),
                                    ![w].bytes = <<>>,
                                    ![w].parsed = <<p.ret>>,
                                    ![w].method = p.method,
                                    ![w].path = p.path,
                                    ![w].body = p.body,
                                    ![w].io = o.io,
                                    ![w].response = o.response]
        /\ connections' =
             IF o.login # <<>>
             THEN [connections EXCEPT ![worker[w].slot].authenticated = 1,
                                      ![worker[w].slot].username = o.login[1]]
             ELSE connections

\* Lines 79-162: parse_request, then dispatch.  Without a CRLF parse_request
\* returns -1: the iteration ends having touched only locals, and the step
\* runs on to the loop condition of line 69 (the buffer and `bytes` are
\* dropped when a new iteration begins).  Otherwise a handler runs.  A string
\* written past the end of its buffer is undefined behaviour: the process is
\* killed (the worker stops at "abort" with what was written), or it goes on
\* with the strings as they read back.
handle_connection_process(w) ==
    /\ worker[w].pc = "process"
    /\ LET p == Parsed[worker[w].req]
       IN  IF p.ret # 0
           THEN /\ LET next == IF AfterParse(p.ret) = "loop"
                                THEN LoopCondition(worker[w].slot)
                                ELSE AfterParse(p.ret)
                   IN  worker' = [worker EXCEPT
                                    ![w].pc = next,
                                    ![w].bytes = IF next = "recv" THEN <<>> ELSE @,
                                    ![w].req = NoRequest,
                                    ![w].from = 0]
                /\ UNCHANGED connections
           ELSE \/ RunHandlers(w, p)
                \/ /\ Overflows(p)
                   /\ worker' = [worker EXCEPT ![w].pc = "abort",
                                               ![w].bytes = <<>>,
                                               ![w].parsed = <<p.ret>>,
                                               ![w].method = p.method,
                                               ![w].path = p.path,
                                               ![w].body = p.body]
                   /\ UNCHANGED connections
    /\ UNCHANGED <<conn_mutex, conn_count, fdConn, heap, nextConn, slotConn, caller>>
    /\ observed' = Observed(connections')
    /\ UNCHANGED <<wire, cacheVars, udpVars>>

\* Line 164: send(conn->socket, response, ...).
handle_connection_send(w) ==
    /\ worker[w].pc = "send"
    /\ worker' = [worker EXCEPT ![w] = [NoWorker EXCEPT !.pc = "loop",
                                                        !.slot = worker[w].slot]]
    /\ UNCHANGED <<connections, conn_mutex, conn_count, fdConn, heap, nextConn,
                   slotConn, caller, observed, wire, cacheVars, udpVars>>

\* A worker that returns right after closing its socket.
AfterClose_returns == "done"

\* Lines 168-170: after close the worker goes on to take conn_mutex.
AfterClose == "cleanup"

\* Line 168: close(conn->socket), the descriptor the slot holds now.
handle_connection_close(w) ==
    /\ worker[w].pc = "close"
    /\ fdConn' = CloseFd(fdConn, connections[worker[w].slot].socket)
    /\ worker' = [worker EXCEPT ![w].pc = AfterClose, ![w].bytes = <<>>]
    /\ UNCHANGED <<connections, conn_mutex, conn_count, heap, nextConn, slotConn, caller,
                   observed, wire, cacheVars, udpVars>>

\* A cleanup that forgets the decrement.
ReleaseCount_forgotten(n) == n

\* Line 176: conn_count--.
ReleaseCount(n) == n - 1

\* Lines 170-176: pthread_mutex_lock(&conn_mutex), then, holding the lock,
\* active = 0, client_ip freed and set to NULL when it is not NULL,
\* conn_count--.
handle_connection_cleanup(w) ==
    /\ worker[w].pc = "cleanup"
    /\ conn_mutex = 0
    /\ conn_mutex' = w
    /\ LET slot == worker[w].slot
           ip   == connections[slot].client_ip
       IN  /\ connections' = [connections EXCEPT ![slot].active = 0,
                                                 ![slot].client_ip = 0]
           /\ heap' = IF ip # 0 THEN [heap EXCEPT ![ip] = "freed"] ELSE heap
    /\ conn_count' = ReleaseCount(conn_count)
    /\ worker' = [worker EXCEPT ![w].pc = "unlock",
                                ![w].releases = worker[w].releases + 1]
    /\ UNCHANGED <<fdConn, nextConn, slotConn, caller>>
    /\ observed' = Observed(connections')
    /\ UNCHANGED <<wire, cacheVars, udpVars>>

\* Lines 177-179: pthread_mutex_unlock(&conn_mutex); return NULL.
handle_connection_unlock(w) ==
    /\ worker[w].pc = "unlock"
    /\ conn_mutex = w
    /\ conn_mutex' = 0
    /\ worker' = [worker EXCEPT ![w] = [NoWorker EXCEPT !.pc = "done",
                                                        !.releases = worker[w].releases]]
    /\ UNCHANGED <<connections, conn_count, fdConn, heap, nextConn, slotConn, caller,
                   observed, wire, cacheVars, udpVars>>

\* ----------------------------------------------------------- specification

AcceptStep(T) ==
    \E t \in T :
        \/ accept_connection_accept(t)
        \/ accept_connection_accept_fails(t)
        \/ accept_connection_acquire(t)
        \/ accept_connection_unlock(t)
        \/ accept_connection_reject(t)
        \/ accept_connection_print(t)
        \/ accept_connection_return(t)

CloseAllStep(T) ==
    \E t \in T :
        \/ close_all_connections_lock(t)
        \/ close_all_connections_loop(t)
        \/ close_all_connections_unlock(t)

WorkerStep ==
    \E w \in Conns :
        \/ handle_connection_loop(w)
        \/ handle_connection_recv(w)
        \/ handle_connection_process(w)
        \/ handle_connection_send(w)
        \/ handle_connection_close(w)
        \/ handle_connection_cleanup(w)
        \/ handle_connection_unlock(w)

Next == AcceptStep({Listener}) \/ CloseAllStep({Other}) \/ WorkerStep

Spec == Init /\ [][Next]_vars

\* Scheduling: a thread that can take a step is not held back for ever (the
\* steps from close to return never block except on the lock), a thread that
\* holds conn_mutex goes on to release it, and a thread that waits in
\* pthread_mutex_lock gets the lock if it is free again and again.  recv
\* blocks for as long as the peer likes, and the embedding program calls
\* accept_connection and close_all_connections when it likes: no fairness
\* for those.
Fairness ==
    /\ \A w \in Conns :
          /\ WF_vars(handle_connection_close(w))
          /\ SF_vars(handle_connection_cleanup(w))
          /\ WF_vars(handle_connection_unlock(w))
    /\ \A t \in Callers :
          /\ SF_vars(accept_connection_acquire(t))
          /\ WF_vars(accept_connection_unlock(t))
          /\ WF_vars(accept_connection_reject(t))
          /\ WF_vars(accept_connection_print(t))
          /\ WF_vars(close_all_connections_loop(t))
          /\ WF_vars(close_all_connections_unlock(t))

FairSpec == Spec /\ Fairness

\* The same with peers that never leave a worker blocked: every recv returns
\* (at once on a descriptor that is not open), and the steps of the request
\* loop, which do not block, are taken.
LoopFairness ==
    \A w \in Conns :
        /\ WF_vars(handle_connection_loop(w))
        /\ WF_vars(handle_connection_recv(w))
        /\ WF_vars(handle_connection_process(w))
        /\ WF_vars(handle_connection_send(w))

FairLoopSpec == Spec /\ Fairness /\ LoopFairness

\* The registry with no caller of close_all_connections.
NextNoCloseAll == AcceptStep(Callers) \/ WorkerStep

SpecNoCloseAll == Init /\ [][NextNoCloseAll]_vars

\* One client and its worker, with every buffer of the request model: the
\* listener accepts a single connection and close_all_connections is not
\* called.
accept_connection_once(t) == nextConn = 0 /\ accept_connection_accept(t)

NextRequests ==
    \/ accept_connection_once(Listener)
    \/ accept_connection_acquire(Listener)
    \/ accept_connection_unlock(Listener)
    \/ accept_connection_print(Listener)
    \/ accept_connection_return(Listener)
    \/ \E w \in Conns :
          \/ handle_connection_loop(w)
          \/ handle_connection_recv_any(w)
          \/ handle_connection_process(w)
          \/ handle_connection_send(w)
          \/ handle_connection_close(w)
          \/ handle_connection_cleanup(w)
          \/ handle_connection_unlock(w)

SpecRequests == Init /\ [][NextRequests]_vars

\* Line 164: the string in `response` is what send puts on the wire.
codec_send ==
    /\ wire.pc = "written"
    /\ wire' = [wire EXCEPT !.pc = "sent",
                            !.bytes = Serialize(wire.response, wire.content)]
    /\ UNCHANGED <<connections, conn_mutex, conn_count, fdConn, heap, nextConn,
                   slotConn, caller, worker, observed, cacheVars, udpVars>>

\* Lines 43-59 and 79-84: the peer reads the bytes with parse_request, into
\* buffers of the sizes parse_request is called with.  A string written past
\* the end of its buffer is undefined behaviour: the peer is killed, or goes
\* on with the strings as they read back.
codec_parse ==
    /\ wire.pc = "sent"
    /\ LET p == parse_request(wire.bytes)
       IN  \/ wire' = [pc |-> "parsed", response |-> wire.response,
                       content |-> wire.content, bytes |-> wire.bytes, parsed |-> p]
           \/ /\ Overflows(p)
              /\ wire' = [wire EXCEPT !.pc = "abort"]
    /\ UNCHANGED <<connections, conn_mutex, conn_count, fdConn, heap, nextConn,
                   slotConn, caller, worker, observed, cacheVars, udpVars>>

\* The codec on its own: a handler has filled in one of the responses, the
\* worker sends it and the peer parses what it received.
InitCodec ==
    /\ InitRegistry
    /\ InitCache
    /\ InitServer
    /\ \E x \in Serialized :
          wire = [NoWire EXCEPT !.pc = "written", !.response = x.response,
                                !.content = x.content]

NextCodec == codec_send \/ codec_parse

SpecCodec == InitCodec /\ [][NextCodec]_vars

DumpStep(T) ==
    \E t \in T :
        \/ dump_connections_begin(t)
        \/ dump_connections_loop(t)
        \/ dump_connections_arg(t)
        \/ dump_connections_ip(t)
        \/ dump_connections_user(t)
        \/ dump_connections_return(t)

\* The registry with a thread that calls dump_connections while the listener
\* accepts and the workers run.
NextDump == AcceptStep({Listener}) \/ DumpStep({Other}) \/ WorkerStep

SpecDump == Init /\ [][NextDump]_vars

\* ------------------------------------------------------------------ claims

\* The step in which caller t, holding conn_mutex, looks for a slot.
AcquireStep(t) == caller[t].pc = "a_acquire" /\ caller'[t].pc = "a_unlock"

\* The step in which worker w runs lines 170-176.
CleanupStep(w) == worker[w].pc = "cleanup" /\ worker'[w].pc = "unlock"

\* C1: with accept_connection calls and worker releases only (no
\* close_all_connections), whenever conn_mutex is free conn_count equals the
\* number of slots with active = 1.
C1_CountMatchesActive ==
    conn_mutex = 0 => conn_count = Cardinality(ActiveSlots)

\* Two callers are inside accept_connection at once, one of them about to
\* take the lock, and the worker of the connection the other one registered
\* has released its slot.
C1_Witness ==
    /\ conn_mutex = 0
    /\ caller[Listener].pc = "a_print"
    /\ caller[Other].pc = "a_acquire"
    /\ worker[slotConn[caller[Listener].slot]].pc = "done"
    /\ conn_count = 0

\* C2: with close_all_connections too, whenever conn_mutex is free
\* conn_count equals the number of active slots, and so lies in
\* 0..MAX_CONNECTIONS.
C2_CountMatchesActiveAlways ==
    conn_mutex = 0 =>
        /\ conn_count = Cardinality(ActiveSlots)
        /\ conn_count \in 0 .. MAX_CONNECTIONS

\* C3: with every slot active, accept_connection writes nothing to the table,
\* to conn_count or to the workers, starts no worker, goes straight on to
\* unlock and close the accepted socket, and returns -1.
C3_FullTableRejects ==
    [][\A t \in Callers :
         /\ (AcquireStep(t) /\ ActiveSlots = Slots) =>
               /\ caller'[t].slot = NoSlot
               /\ connections' = connections
               /\ conn_count' = conn_count
               /\ worker' = worker
         /\ (caller[t].pc = "a_unlock" /\ caller[t].slot = NoSlot
                                       /\ caller'[t] # caller[t]) =>
               /\ caller'[t].pc = "a_close"
               /\ connections' = connections
               /\ conn_count' = conn_count
               /\ worker' = worker
         /\ (caller[t].pc = "a_close" /\ caller'[t] # caller[t]) =>
               /\ caller'[t].pc = "a_return"
               /\ caller'[t].ret = <<-1>>
               /\ ~SocketOpen(caller[t].cid)'
               /\ worker'[caller[t].cid].pc = "none"
               /\ connections' = connections
               /\ conn_count' = conn_count
      ]_vars

\* A connection was turned away at a full table: its socket is closed, the
\* call returns -1 and every slot is still active.
C3_Witness ==
    /\ caller[Listener].pc = "a_return"
    /\ caller[Listener].ret = <<-1>>
    /\ caller[Listener].cid # 0
    /\ ~SocketOpen(caller[Listener].cid)
    /\ ActiveSlots = Slots

\* C4: a worker's cleanup of a slot that close_all_connections has already
\* released, or that a later accept_connection has re-acquired, changes
\* neither the table nor conn_count.
C4_StaleReleaseIsNoOp ==
    [][\A w \in Conns :
         (/\ CleanupStep(w)
          /\ \/ connections[worker[w].slot].active = 0
             \/ slotConn[worker[w].slot] # w) =>
               /\ connections' = connections
               /\ conn_count' = conn_count
      ]_vars

\* C5: when close_all_connections is about to release conn_mutex, conn_count
\* is 0, no slot is active, and the socket of every connection whose slot was
\* active when it took the lock is closed.
C5_CloseAllLeavesNothingActive ==
    \A t \in Callers :
        caller[t].pc = "c_unlock" =>
            /\ conn_count = 0
            /\ ActiveSlots = {}
            /\ \A c \in caller[t].was : ~SocketOpen(c)

\* close_all_connections has gone over a table in which every slot was active.
C5_Witness ==
    /\ caller[Other].pc = "c_unlock"
    /\ Cardinality(caller[Other].was) = MAX_CONNECTIONS

\* C6: no slot ever has two live workers bound to it.
C6_OneWorkerPerSlot ==
    \A s \in Slots : Cardinality(WorkersOf(s)) <= 1

\* C7: whenever conn_mutex is free, every active slot has a live worker.
C7_ActiveSlotHasWorker ==
    conn_mutex = 0 => \A s \in ActiveSlots : WorkersOf(s) # {}

\* C8: whenever conn_mutex is free, a slot is either inactive with client_ip
\* NULL, authenticated 0 and an empty username, or active with the socket
\* of its connection open.
C8_SlotShape ==
    conn_mutex = 0 =>
        \A s \in Slots :
            \/ /\ connections[s].active = 0
               /\ connections[s].client_ip = 0
               /\ connections[s].authenticated = 0
               /\ connections[s].username = <<>>
            \/ /\ connections[s].active = 1
               /\ ConnOfFd(connections[s].socket) = slotConn[s]

\* C9: right after accept_connection has populated a slot, the slot has
\* authenticated = 0 and an empty username.
C9_AcquireResetsSession ==
    [][\A t \in Callers :
         (AcquireStep(t) /\ caller'[t].slot # NoSlot) =>
               /\ connections'[caller'[t].slot].authenticated = 0
               /\ connections'[caller'[t].slot].username = <<>>
      ]_vars

\* The worker has left the request loop (it is about to close the socket).
EntersClosed(w) == worker[w].pc # "close" /\ worker'[w].pc = "close"

\* recv has just returned zero bytes or an error to worker w.
RecvEnded(w) == worker[w].pc = "recv" /\ worker'[w].bytes \in {<<0>>, <<-1>>}

\* The positions of the request loop and the steps between them.
LoopStepOk(w) ==
    LET from == worker[w].pc
        to   == worker'[w].pc
    IN  \/ from = to
        \/ from = "none"    /\ to = "loop"
        \/ from = "loop"    /\ to \in {"recv", "close"}
        \/ from = "recv"    /\ to \in {"process", "close"}
        \/ from = "process" /\ to \in {"send", "recv", "close"}
        \/ from = "send"    /\ to = "loop"
        \/ from = "close"   /\ to = "cleanup"
        \/ from = "cleanup" /\ to = "unlock"
        \/ from = "unlock"  /\ to = "done"

RecvEndedAt(w) == worker[w].pc = "close" /\ worker[w].bytes \in {<<0>>, <<-1>>}

\* Worker w has returned after running its cleanup once.
ReturnedAfterRelease(w) == worker[w].pc = "done" /\ worker[w].releases = 1

\* C11: under fair scheduling a worker whose recv returned zero bytes or an
\* error goes on to close the socket, run the cleanup (active = 0,
\* conn_count--) and return; no worker runs the cleanup twice, and none
\* returns without having run it.
C11_RecvEndLeadsToRelease ==
    /\ \A w \in Conns : RecvEndedAt(w) ~> ReturnedAfterRelease(w)
    /\ [](\A w \in Conns :
            /\ worker[w].releases <= 1
            /\ worker[w].pc = "done" => worker[w].releases = 1)

\* One worker has returned after its cleanup and another has just left the
\* loop on end of stream.
C11_Witness ==
    \E w1, w2 \in Conns :
        /\ ReturnedAfterRelease(w1)
        /\ worker[w2].pc = "close" /\ worker[w2].bytes = <<0>>

\* The registry as a worker step can change it.
registry == <<connections, conn_count, conn_mutex, fdConn, heap, slotConn>>

\* raw holds a CRLF.
HasCrlf(raw) == \E i \in 1 .. (Len(raw) - 1) : raw[i] = "\r" /\ raw[i + 1] = "\n"

\* Worker w takes the step that calls parse_request on a buffer without CRLF.
ParsesNoCrlf(w) ==
    /\ worker[w].pc = "process"
    /\ ~HasCrlf(worker[w].req)
    /\ worker'[w] # worker[w]

\* In that step parse_request returns -1, no handler runs, nothing is written
\* into a response, and the socket and the slot are left alone.
NoCrlfSkipsDispatch(w) ==
    /\ parse_request(worker[w].req).ret = -1
    /\ worker'[w].parsed = <<>>
    /\ worker'[w].response = Unset
    /\ worker'[w].io = "none"
    /\ worker'[w].slot = worker[w].slot
    /\ worker'[w].releases = worker[w].releases
    /\ registry' = registry

\* C12 as stated: on a buffer without CRLF parse_request returns -1, the
\* worker dispatches nothing, neither closes the socket nor releases the
\* slot, and what it does next is another recv on the socket of its slot.
C12_NoCrlfThenRecv ==
    [][\A w \in Conns :
         ParsesNoCrlf(w) => NoCrlfSkipsDispatch(w) /\ worker'[w].pc = "recv"
      ]_vars

\* C12 as amended: on a buffer without CRLF parse_request returns -1, the
\* worker dispatches nothing, neither closes the socket nor releases the
\* slot, and goes back to the loop condition; what it does next is another
\* recv on the socket of its slot when the slot's active flag is still 1, and
\* the way out of the loop when the flag has been cleared meanwhile.
C12_NoCrlfThenLoopCondition ==
    [][\A w \in Conns :
         ParsesNoCrlf(w) =>
             /\ NoCrlfSkipsDispatch(w)
             /\ worker'[w].pc = IF connections[worker[w].slot].active = 1
                                THEN "recv" ELSE "close"
      ]_vars

\* A worker has left the loop on the loop condition with the data of its
\* last recv unparsed: its slot was deactivated while it held a buffer
\* without CRLF.
C12_Witness ==
    \E w \in Conns :
        /\ worker[w].pc = "close"
        /\ worker[w].bytes = <<1>>
        /\ connections[worker[w].slot].active = 0

\* The text of raw before its first CRLF (all of raw when it has none).
FirstLine(raw) ==
    IF HasCrlf(raw)
    THEN SubSeq(raw, 1, Min({i \in 1 .. (Len(raw) - 1) :
                               raw[i] = "\r" /\ raw[i + 1] = "\n"}) - 1)
    ELSE raw

\* The number of white-space-delimited tokens of a line.
TokenCount(line) ==
    Cardinality({i \in 1 .. Len(line) :
                   /\ line[i] \notin Whitespace
                   /\ i = 1 \/ line[i - 1] \in Whitespace})

\* A buffer the codec is to reject: no CRLF, or fewer than two tokens on the
\* first line.
Malformed(raw) == ~HasCrlf(raw) \/ TokenCount(FirstLine(raw)) < 2

\* Status lines of error responses.
ErrorStatuses ==
    {"400 Bad Request", "401 Unauthorized", "404 Not Found",
     "405 Method Not Allowed", "500 Error"}

\* C13: on every malformed buffer the worker writes an error response and
\* goes on to send it before it reads again.
C13_MalformedGetsErrorResponse ==
    [][\A w \in Conns :
         (/\ worker[w].pc = "process"
          /\ Malformed(worker[w].req)
          /\ worker'[w] # worker[w]) =>
               /\ worker'[w].pc = "send"
               /\ worker'[w].response.status \in ErrorStatuses
      ]_vars

\* C14: parse_request fails on every buffer whose first line has fewer than
\* two white-space-delimited tokens.
C14_FewerThanTwoTokensFails ==
    \A w \in Conns :
        (worker[w].req # NoRequest /\ TokenCount(FirstLine(worker[w].req)) < 2) =>
            worker[w].parsed # <<0>>

\* C15: whenever parse_request succeeded, the path it produced begins with
\* '/' (so a request whose path does not is never dispatched).
C15_ParsedPathBeginsWithSlash ==
    \A w \in Conns :
        worker[w].parsed = <<0>> =>
            /\ worker[w].path # <<>>
            /\ worker[w].path[1] = "/"

\* The requests of the documented form, with the parts they were written
\* from.
WellFormedParts ==
    {[method |-> m, path |-> p, body |-> b, raw |-> Compose(m, p, h, b)] :
        m \in Methods, p \in Paths, h \in HeaderBlocks, b \in Bodies}

\* Request lines and header lines with no blank line after them.
NoBlankLineParts ==
    {[method |-> m, path |-> p, body |-> <<>>, raw |-> m \o <<" ">> \o p \o CRLF \o h] :
        m \in {sGET, sPOST}, p \in {sStatus, sExec}, h \in HeaderBlocks}

C17_ParsedFieldsWithinLimits ==
    \A w \in Conns :
        /\ Len(worker[w].method) <= 16
        /\ Len(worker[w].path) <= 255
        /\ Len(worker[w].body) <= 1024

\* The route table in declaration order: the first route that matches
\* (method, path), "none" when none does.
RouteOf(method, path) ==
    IF method = sGET /\ Len(path) >= 6 /\ SubSeq(path, 1, 6) = sFilePrefix THEN "file"
    ELSE IF method = sGET /\ path = sStatus THEN "status"
    ELSE IF method = sPOST /\ path = sLogin THEN "login"
    ELSE IF method = sPOST /\ path = sExec THEN "exec"
    ELSE IF method = sPOST /\ path = sUpload THEN "upload"
    ELSE "none"

\* What the handler of a route can leave in `response`.
ResponsesOf(route) ==
    IF route = "file" THEN {FileContent, FileNotFound}
    ELSE IF route = "status" THEN {StatusResponse(n) : n \in -MaxAccepts .. MaxAccepts}
    ELSE IF route = "login" THEN {LoginSuccessful, InvalidCredentials} \cup Indeterminate
    ELSE IF route = "exec" THEN {CommandOutput, ExecutionFailed} \cup Indeterminate
    ELSE IF route = "upload" THEN {FileSaved} \cup Indeterminate
    ELSE {}

\* Worker w has parsed a request and run the dispatch on it.
Dispatched(w) == worker[w].pc = "send" /\ worker[w].parsed = <<0>>

\* C18 as stated: a parsed request is handled by the first route that
\* matches it, and one that matches no route is answered 404 Not Found.
C18_UnmatchedGets404 ==
    \A w \in Conns :
        Dispatched(w) =>
            LET route == RouteOf(worker[w].method, worker[w].path)
            IN  IF route = "none"
                THEN worker[w].response = NotFound
                ELSE worker[w].response \in ResponsesOf(route)

\* C18 as amended: a parsed request is handled by the first route that
\* matches it; one that matches no route is answered 404 Not Found when its
\* method is GET or POST and 405 Method Not Allowed when it is neither.
C18_UnmatchedGets404Or405 ==
    \A w \in Conns :
        Dispatched(w) =>
            LET route == RouteOf(worker[w].method, worker[w].path)
            IN  IF route = "none"
                THEN worker[w].response =
                         IF worker[w].method \in {sGET, sPOST} THEN NotFound
                                                               ELSE MethodNotAllowed
                ELSE worker[w].response \in ResponsesOf(route)

\* A PUT request has been answered 405.
C18_Witness ==
    \E w \in Conns :
        /\ Dispatched(w)
        /\ worker[w].method = sPUT
        /\ worker[w].path = sStatus
        /\ worker[w].response = MethodNotAllowed

\* C19: when fopen (in /upload) or popen (in /exec) fails in a POST handler,
\* the response about to be sent is a server-error or not-found response,
\* and the connection is still open and its slot active.
C19_PostFailureGetsErrorResponse ==
    \A w \in Conns :
        (Dispatched(w) /\ worker[w].method = sPOST /\ worker[w].io = "fail") =>
            /\ worker[w].response.status \in {"500 Error", "404 Not Found"}
            /\ connections[worker[w].slot].active = 1
            /\ ConnOfFd(connections[worker[w].slot].socket) = w

\* fopen has just failed in the handler of GET /file/... in worker w's step.
FileOpenFails(w) ==
    /\ worker[w].pc = "process"
    /\ worker'[w].pc # "process"
    /\ worker'[w].method = sGET
    /\ RouteOf(worker'[w].method, worker'[w].path) = "file"
    /\ worker'[w].io = "fail"

\* Worker w sends the response to a GET /file/... whose fopen failed.
SendsAfterFileOpenFailed(w) ==
    /\ worker[w].pc = "send"
    /\ worker'[w] # worker[w]
    /\ worker[w].method = sGET
    /\ worker[w].io = "fail"

\* C20: when fopen fails for GET /file/..., the worker writes the 404
\* "File not found" response, sends it and is back at the head of its loop on
\* the same slot; neither step changes the registry or ends the worker.
C20_FileNotFoundKeepsWorker ==
    [][\A w \in Conns :
         /\ FileOpenFails(w) =>
               /\ worker'[w].response = FileNotFound
               /\ worker'[w].pc = "send"
               /\ worker'[w].slot = worker[w].slot
               /\ registry' = registry
         /\ SendsAfterFileOpenFailed(w) =>
               /\ worker[w].response = FileNotFound
               /\ worker'[w].pc = "loop"
               /\ worker'[w].slot = worker[w].slot
               /\ registry' = registry
      ]_vars

\* The 404 for a file that could not be opened is about to be sent on a
\* connection that is open and whose slot is active.
C20_Witness ==
    \E w \in Conns :
        /\ worker[w].pc = "send"
        /\ worker[w].path = sFileA
        /\ worker[w].io = "fail"
        /\ worker[w].response = FileNotFound
        /\ connections[worker[w].slot].active = 1
        /\ ConnOfFd(connections[worker[w].slot].socket) = w

\* The positions at which a thread owns conn_mutex: in accept_connection
\* between lines 192 and 196/212, in close_all_connections between lines 220
\* and 230, in handle_connection between lines 170 and 177.
LockedPositions == {"a_unlock", "c_loop", "c_unlock", "unlock"}

\* The position of thread x (a caller or a worker).
PositionOf(x) == IF x \in Callers THEN caller[x].pc ELSE worker[x].pc

\* C21: the owner of conn_mutex is always a thread inside one of the three
\* locked regions; a thread about to call accept, blocked in recv, or about
\* to send never owns it.
C21_NoLockDuringSocketIO ==
    /\ conn_mutex # 0 => PositionOf(conn_mutex) \in LockedPositions
    /\ \A t \in Callers : caller[t].pc \in {"idle", "a_acquire"} => conn_mutex # t
    /\ \A w \in Conns : worker[w].pc \in {"recv", "process", "send"} => conn_mutex # w

\* A worker is blocked in recv while close_all_connections holds the lock.
C21_Witness ==
    /\ conn_mutex = Other
    /\ caller[Other].pc = "c_loop"
    /\ \E w \in Conns : worker[w].pc = "recv"

\* The steps of thread x that read or write a slot's active flag or
\* conn_count: the loop condition of line 69 (also reached from a failed
\* parse), the handlers' read of conn_count for GET /status, the read of
\* active in dump_connections, find_free_slot and the writes of
\* accept_connection, the loop of close_all_connections, the worker's cleanup.
AccessesActiveOrCount(x) ==
    IF x \in Conns
    THEN /\ worker'[x] # worker[x]
         /\ \/ worker[x].pc \in {"loop", "cleanup"}
            \/ /\ worker[x].pc = "process"
               /\ \/ Parsed[worker[x].req].ret # 0
                  \/ /\ worker'[x].method = sGET
                     /\ worker'[x].path = sStatus
                     /\ worker'[x].pc = "send"
    ELSE /\ caller'[x] # caller[x]
         /\ \/ caller[x].pc \in {"a_acquire", "c_loop"}
            \/ caller[x].pc = "d_loop" /\ caller[x].i < MAX_CONNECTIONS

\* C22: every step in which a thread reads or writes an active flag or
\* conn_count is taken by a thread that holds conn_mutex during the access.
C22_ActiveAndCountUnderLock ==
    [][\A x \in Conns \cup Callers :
         AccessesActiveOrCount(x) => conn_mutex = x \/ conn_mutex' = x
      ]_vars

\* The rows of the active slots of the table state T, in ascending slot
\* index: what a copy of T taken at one instant shows.
RowsFrom(T, i) ==
    LET RECURSIVE Rows(_)
        Rows(k) ==
            IF k >= MAX_CONNECTIONS THEN <<>>
            ELSE IF T[k].active = 1
            THEN <<Row(k, T[k].client_ip, T[k].authenticated, T[k].username)>>
                 \o Rows(k + 1)
            ELSE Rows(k + 1)
    IN  Rows(i)

SnapshotOf(T) == RowsFrom(T, 0)

\* C23: when dump_connections has printed its footer, the rows it printed are
\* the rows of one table state that existed during the call.
C23_DumpIsSnapshot ==
    \A t \in Callers :
        caller[t].pc = "d_done" =>
            \E T \in observed : caller[t].rows = SnapshotOf(T)

\* Every thread of the model: the callers and the workers.
Threads == Callers \cup Conns

\* C24: under fair scheduling whoever holds conn_mutex releases it, a thread
\* waiting for the lock in accept_connection gets it and the call returns, a
\* worker waiting for the lock in its cleanup gets it and returns, and
\* close_all_connections, once it holds the lock, finishes and returns.
C24_NoDeadlock ==
    /\ \A x \in Threads : (conn_mutex = x) ~> (conn_mutex # x)
    /\ \A t \in Callers : (caller[t].pc = "a_acquire") ~> (caller[t].pc = "a_return")
    /\ \A t \in Callers : (caller[t].pc = "c_loop") ~> (caller[t].pc = "idle")
    /\ \A w \in Conns : (worker[w].pc = "cleanup") ~> (worker[w].pc = "done")

\* close_all_connections holds the lock while a worker and the listener both
\* wait for it.
C24_Witness ==
    /\ conn_mutex = Other
    /\ caller[Other].pc = "c_unlock"
    /\ caller[Listener].pc = "a_acquire"
    /\ \E w \in Conns : worker[w].pc = "cleanup"

\* close_all_connections has gone over the table, and the slot of connection
\* w was active when it took the lock.
ClosedByCloseAll(w) ==
    \E t \in Callers : caller[t].pc = "c_unlock" /\ w \in caller[t].was

\* C25: under fair scheduling, with every recv returning, the worker of a
\* connection that close_all_connections has closed goes on to return through
\* its cleanup (a connection whose pthread_create failed has no worker).
C25_ClosedWorkersTerminate ==
    \A w \in Conns : ClosedByCloseAll(w) ~> (worker[w].pc \in {"none", "done"})

\* Worker w holds a request it has received and not yet answered.
HoldsRequest(w) == worker[w].pc \in {"process", "send"} /\ worker[w].from # 0

\* C26: the requests of a connection are handled one at a time by the
\* connection's own worker: a worker holds only requests received on the
\* socket of its connection, and no two workers hold requests of the same
\* connection at once (so the responses go out in the order of arrival).
C26_OneRequestAtATime ==
    \A w1 \in Conns :
        HoldsRequest(w1) =>
            /\ worker[w1].from = w1
            /\ \A w2 \in Conns \ {w1} :
                   HoldsRequest(w2) => worker[w2].from # worker[w1].from

\* C27: parse_request succeeds on the bytes of every response the worker
\* serializes, and gives back the status code as the second token of the
\* first line and, as the body, the bytes that were written after the blank
\* line.
C27_ResponseRoundTrip ==
    wire.pc \in {"parsed", "abort"} =>
        /\ wire.pc = "parsed"
        /\ wire.parsed.ret = 0
        /\ wire.parsed.method = sHttp11
        /\ wire.parsed.path = StatusCode(wire.response.status)
        /\ wire.parsed.body = BodyBytes(wire.response, wire.content)

\* In this step the active slot s goes from authenticated = 0 to
\* authenticated = 1.
BecomesAuthenticated(s) ==
    /\ connections[s].active = 1
    /\ connections[s].authenticated = 0
    /\ connections'[s].authenticated = 1

\* In this step worker w finishes a POST /login that succeeded, and the
\* request was received on the socket of connection c.
LoginSucceedsOn(w, c) ==
    /\ worker[w].pc = "process"
    /\ worker[w].from = c
    /\ worker'[w].pc = "send"
    /\ worker'[w].method = sPOST
    /\ worker'[w].path = sLogin
    /\ worker'[w].response = LoginSuccessful

\* C28: an active slot becomes authenticated only in a step in which a POST
\* /login received on the connection that occupies the slot succeeds, and a
\* slot that a new connection has just taken over is not authenticated; so
\* an active slot is authenticated only by a login of its current connection.
C28_AuthenticatedOnlyByOwnLogin ==
    [][\A s \in Slots :
         /\ BecomesAuthenticated(s) =>
               \E w \in Conns : worker[w].slot = s /\ LoginSucceedsOn(w, slotConn[s])
         /\ slotConn'[s] # slotConn[s] => connections'[s].authenticated = 0
      ]_vars

\* Thread x calls close in this step, on the descriptor fd.
WorkerCloses(w) == worker[w].pc = "close" /\ worker'[w].pc # "close"

RejectCloses(t) == caller[t].pc = "a_close" /\ caller'[t].pc # "a_close"

CloseAllCloses(t) ==
    /\ caller[t].pc = "c_loop"
    /\ caller'[t] # caller[t]
    /\ caller[t].i < MAX_CONNECTIONS
    /\ connections[caller[t].i].active = 1

\* C29: whenever close is called, by a worker leaving its loop, by
\* accept_connection turning a client away or by close_all_connections, the
\* descriptor is open and is the socket of the closer's own connection (the
\* worker's, the rejected client's, the one last accepted into the slot): no
\* socket is closed twice and none through another connection's handle.
C29_CloseOwnOpenSocketOnly ==
    [][/\ \A w \in Conns :
            WorkerCloses(w) => ConnOfFd(connections[worker[w].slot].socket) = w
       /\ \A t \in Callers :
            /\ RejectCloses(t) => ConnOfFd(caller[t].client_socket) = caller[t].cid
            /\ CloseAllCloses(t) =>
                  /\ slotConn[caller[t].i] # 0
                  /\ ConnOfFd(connections[caller[t].i].socket) = slotConn[caller[t].i]
      ]_vars

\* The responses the sprintf calls of a request's handler can write.
HandlerWrites(method, path) ==
    LET route == RouteOf(method, path)
    IN  IF route = "file" THEN {FileContent, FileNotFound}
        ELSE IF route = "status"
        THEN {StatusResponse(n) : n \in -MaxAccepts .. MaxAccepts}
        ELSE IF route = "login" THEN {LoginSuccessful, InvalidCredentials}
        ELSE IF route = "exec" THEN {CommandOutput, ExecutionFailed}
        ELSE IF route = "upload" THEN {FileSaved}
        ELSE IF method \in {sGET, sPOST} THEN {NotFound}
        ELSE {MethodNotAllowed}

\* C30: what a worker is about to send for a parsed request is one of the
\* responses the handler of that request writes: never a buffer no handler
\* wrote in this iteration.
C30_SentResponseWasWritten ==
    \A w \in Conns :
        Dispatched(w) =>
            worker[w].response \in HandlerWrites(worker[w].method, worker[w].path)

\* Caller t prints its log line in this step (line 214), reading client_ip
\* of the slot it was given.
LogLineReads(t) == caller[t].pc = "a_print" /\ caller'[t].pc # "a_print"

\* Caller t, inside dump_connections, has printf read the string behind the
\* pointer it loaded from the slot.
DumpReadsAddress(t) == caller[t].pc = "d_ip" /\ caller'[t] # caller[t]

\* C31: the address string of a slot is never read after it has been freed
\* or its pointer cleared: not by the log line of accept_connection, not by
\* dump_connections; and the worker's cleanup frees a string that is live (so
\* none is freed twice).
C31_AddressNotReadAfterFree ==
    [][/\ \A t \in Callers :
            /\ LogLineReads(t) => ~Dangling(connections[caller[t].slot].client_ip)
            /\ DumpReadsAddress(t) => ~Dangling(caller[t].rd_ip[1])
       /\ \A w \in Conns :
            CleanupStep(w) =>
                LET ip == connections[worker[w].slot].client_ip
                IN  ip # 0 => heap[ip] = "live"
      ]_vars

\* Worker w runs the handler of POST /login in this step (lines 112-126).
HandlesLogin(w) ==
    /\ worker[w].pc = "process"
    /\ worker'[w].pc = "send"
    /\ worker'[w].method = sPOST
    /\ worker'[w].path = sLogin

InactiveSlots == Slots \ ActiveSlots

HandlingStep(w) ==
    /\ worker[w].pc \in {"recv", "process", "send"}
    /\ worker'[w] # worker[w]

\* Slot records that differ at most in authenticated and username.
SameButSession(c, d) ==
    /\ c.socket = d.socket
    /\ c.client_ip = d.client_ip
    /\ c.active = d.active

StoredKey(key) == SubSeq(key, 1, Min({Len(key), MAX_KEY_LEN}))

\* The loops of lines 59-67, 84-95 and 120-142: the position in the chain of
\* the first entry whose key compares equal, 0 when there is none.
FindEntry(chain, key) ==
    LET hits == {i \in 1 .. Len(chain) : chain[i].key = key}
    IN  IF hits = {} THEN 0 ELSE Min(hits)

\* char* cache_get(const char* key), lines 50-71, run under cache_lock: the
\* value pointer of the entry found (<<text it points to>>), or NULL (<<>>).
cache_get(key) ==
    LET chain == cache_table[cache_hash(key)]
        i     == FindEntry(chain, key)
    IN  IF i = 0 THEN <<>> ELSE <<chain[i].value>>

\* free(entry->value) for the entries under the keys K: a pointer to one of
\* them that cache_copy_value still holds is dangling from now on.
Frees(K) ==
    IF cache_reader.pc = "copy" /\ cache_reader.key \in K
    THEN [cache_reader EXCEPT !.dangling = TRUE]
    ELSE cache_reader

\* The process has been killed.
CacheAborted == cache_reader.pc = "abort" \/ cache_writer.pc = "abort"

\* The writing thread is about to make a call.
WriterReady == cache_writer.pc = "idle" /\ ~CacheAborted

\* The writing thread inside a call that returns ret.
Returning(op, key, value, ttl, ret) ==
    [pc |-> "ret", op |-> op, key |-> key, value |-> value, ttl |-> ttl, ret |-> <<ret>>]

\* The call was killed.
Killed(op, key, value, ttl) ==
    [pc |-> "abort", op |-> op, key |-> key, value |-> value, ttl |-> ttl, ret |-> <<>>]

\* strcpy(block, value) into a block of `size` bytes writes the string and
\* its NUL: past the end of the block when the string has `size` characters
\* or more.
CopyOverflows(size, value) == Len(value) + 1 > size

\* int cache_set(key, value, ttl), lines 74-108, under cache_lock.  For a key
\* that has an entry the old value is freed and the new one is copied into
\* malloc(strlen(value)) bytes (lines 87-89): strcpy writes strlen(value) + 1
\* bytes, one past the end of the block, which is undefined behaviour: the
\* call goes on with the value as it reads back, or the process is killed.
\* For a new key an entry with a block of strlen(value) + 1 bytes is put at
\* the head of the chain (lines 98-104).
cache_set(key, value, ttl) ==
    /\ WriterReady
    /\ LET b     == cache_hash(key)
           chain == cache_table[b]
           i     == FindEntry(chain, key)
       IN  IF i # 0
           THEN /\ cache_table' = [cache_table EXCEPT ![b][i].value = value,
                                                      ![b][i].ttl = ttl]
                /\ cache_reader' = Frees({key})
                /\ \/ cache_writer' = Returning("cache_set", key, value, ttl, 0)
                   \/ /\ CopyOverflows(Len(value), value)
                      /\ cache_writer' = Killed("cache_set", key, value, ttl)
           ELSE /\ cache_table' =
                     [cache_table EXCEPT ![b] =
                        <<[key |-> StoredKey(key), value |-> value, ttl |-> ttl]>> \o chain]
                /\ cache_reader' = cache_reader
                /\ \/ cache_writer' = Returning("cache_set", key, value, ttl, 0)
                   \/ /\ CopyOverflows(Len(value) + 1, value)
                      /\ cache_writer' = Killed("cache_set", key, value, ttl)
    /\ UNCHANGED <<connections, conn_mutex, conn_count, fdConn, heap, nextConn,
                   slotConn, caller, worker, observed, wire, udpVars>>

\* The chain without its i-th entry.
Unlink(chain, i) == SubSeq(chain, 1, i - 1) \o SubSeq(chain, i + 1, Len(chain))

\* int cache_delete(key), lines 111-146.  Under cache_lock the entry is
\* unlinked and its value and the entry itself are freed; after the unlock,
\* printf reads entry->key out of the freed entry (line 136), which is
\* undefined behaviour: the call returns 0 or the process is killed.  Without
\* an entry for the key the result is -1.
cache_delete(key) ==
    /\ WriterReady
    /\ LET b     == cache_hash(key)
           chain == cache_table[b]
           i     == FindEntry(chain, key)
       IN  IF i # 0
           THEN /\ cache_table' = [cache_table EXCEPT ![b] = Unlink(chain, i)]
                /\ cache_reader' = Frees({key})
                /\ \/ cache_writer' = Returning("cache_delete", key, <<>>, 0, 0)
                   \/ cache_writer' = Killed("cache_delete", key, <<>>, 0)
           ELSE /\ cache_writer' = Returning("cache_delete", key, <<>>, 0, -1)
                /\ UNCHANGED <<cache_table, cache_reader>>
    /\ UNCHANGED <<connections, conn_mutex, conn_count, fdConn, heap, nextConn,
                   slotConn, caller, worker, observed, wire, udpVars>>

\* The keys that have an entry.
StoredKeys ==
    UNION {{cache_table[b][i].key : i \in 1 .. Len(cache_table[b])} : b \in Buckets}

\* void cache_clear(void), lines 149-164, under cache_lock: every entry and
\* its value are freed and every bucket is set to NULL.
cache_clear ==
    /\ WriterReady
    /\ cache_table' = [b \in Buckets |-> <<>>]
    /\ cache_reader' = Frees(StoredKeys)
    /\ cache_writer' = [IdleWriter EXCEPT !.pc = "ret", !.op = "cache_clear"]
    /\ UNCHANGED <<connections, conn_mutex, conn_count, fdConn, heap, nextConn,
                   slotConn, caller, worker, observed, wire, udpVars>>

\* An eviction that spares the entries whose time to live is exactly 0.
RECURSIVE EvictChain_spares_zero(_)
EvictChain_spares_zero(chain) ==
    IF chain = <<>>
    THEN [chain |-> <<>>, freed |-> {}, evicted |-> 0]
    ELSE LET entry == Head(chain)
             rest  == EvictChain_spares_zero(Tail(chain))
         IN  IF entry.ttl < 0
             THEN [chain   |-> rest.chain,
                   freed   |-> rest.freed \cup {entry.key},
                   evicted |-> rest.evicted + 1]
             ELSE [chain   |-> <<[entry EXCEPT !.ttl = @ - 1]>> \o rest.chain,
                   freed   |-> rest.freed,
                   evicted |-> rest.evicted]

\* The while loop of lines 193-213 on one chain: an entry with ttl <= 0 is
\* unlinked and freed with its value and counted, any other entry stays
\* where it is with ttl decremented.  The result is the chain left, the keys
\* of the entries freed and their number.
RECURSIVE EvictChain(_)
EvictChain(chain) ==
    IF chain = <<>>
    THEN [chain |-> <<>>, freed |-> {}, evicted |-> 0]
    ELSE LET entry == Head(chain)
             rest  == EvictChain(Tail(chain))
         IN  IF entry.ttl <= 0
             THEN [chain   |-> rest.chain,
                   freed   |-> rest.freed \cup {entry.key},
                   evicted |-> rest.evicted + 1]
             ELSE [chain   |-> <<[entry EXCEPT !.ttl = @ - 1]>> \o rest.chain,
                   freed   |-> rest.freed,
                   evicted |-> rest.evicted]

\* The sum of f over the set S.
RECURSIVE Sum(_, _)
Sum(f, S) ==
    IF S = {} THEN 0
    ELSE LET x == CHOOSE y \in S : TRUE
         IN  f[x] + Sum(f, S \ {x})

\* int cache_evict_expired(void), lines 184-218, under cache_lock: the loop
\* over the buckets; the result is the number of entries freed.
cache_evict_expired ==
    /\ WriterReady
    /\ LET done == [b \in Buckets |-> EvictChain(cache_table[b])]
       IN  /\ cache_table' = [b \in Buckets |-> done[b].chain]
           /\ cache_reader' = Frees(UNION {done[b].freed : b \in Buckets})
           /\ cache_writer' =
                Returning("cache_evict_expired", <<>>, <<>>, 0,
                          Sum([b \in Buckets |-> done[b].evicted], Buckets))
    /\ UNCHANGED <<connections, conn_mutex, conn_count, fdConn, heap, nextConn,
                   slotConn, caller, worker, observed, wire, udpVars>>

\* The call of the writing thread returns.
cache_writer_return ==
    /\ cache_writer.pc = "ret"
    /\ ~CacheAborted
    /\ cache_writer' = IdleWriter
    /\ UNCHANGED <<connections, conn_mutex, conn_count, fdConn, heap, nextConn,
                   slotConn, caller, worker, observed, wire, cache_table,
                   cache_reader, udpVars>>

\* char* cache_copy_value(key), line 272: cache_get(key) takes cache_lock,
\* looks the key up, releases the lock and returns the entry's value pointer;
\* with NULL cache_copy_value returns NULL (lines 273-275).
cache_copy_value_get(key) ==
    /\ cache_reader.pc = "idle"
    /\ ~CacheAborted
    /\ cache_reader' = [IdleReader EXCEPT
                          !.pc = IF cache_get(key) = <<>> THEN "ret" ELSE "copy",
                          !.key = key,
                          !.value = cache_get(key)]
    /\ UNCHANGED <<connections, conn_mutex, conn_count, fdConn, heap, nextConn,
                   slotConn, caller, worker, observed, wire, cache_table,
                   cache_writer, udpVars>>

\* What a read of freed memory can give.
Stale == CacheValues \cup {<<"?">>}

\* Lines 277-278: strlen(value) and strcpy(copy, value) read the string
\* without the lock.  Reading a block that has been freed is undefined
\* behaviour: the copy holds anything, or the process is killed.
cache_copy_value_copy ==
    /\ cache_reader.pc = "copy"
    /\ ~CacheAborted
    /\ IF cache_reader.dangling
       THEN \/ \E text \in Stale :
                 cache_reader' = [cache_reader EXCEPT !.pc = "ret", !.copy = <<text>>]
            \/ cache_reader' = [cache_reader EXCEPT !.pc = "abort"]
       ELSE cache_reader' = [cache_reader EXCEPT !.pc = "ret", !.copy = cache_reader.value]
    /\ UNCHANGED <<connections, conn_mutex, conn_count, fdConn, heap, nextConn,
                   slotConn, caller, worker, observed, wire, cache_table,
                   cache_writer, udpVars>>

\* Line 280: return copy.
cache_copy_value_return ==
    /\ cache_reader.pc = "ret"
    /\ ~CacheAborted
    /\ cache_reader' = IdleReader
    /\ UNCHANGED <<connections, conn_mutex, conn_count, fdConn, heap, nextConn,
                   slotConn, caller, worker, observed, wire, cache_table,
                   cache_writer, udpVars>>

\* One thread writes the cache while another copies values out of it.
NextCache ==
    \/ \E key \in CacheKeys, value \in CacheValues, ttl \in TTLs :
          cache_set(key, value, ttl)
    \/ \E key \in CacheKeys : cache_delete(key)
    \/ cache_clear
    \/ cache_evict_expired
    \/ cache_writer_return
    \/ \E key \in CacheKeys : cache_copy_value_get(key)
    \/ cache_copy_value_copy
    \/ cache_copy_value_return

SpecCache == Init /\ [][NextCache]_vars

\* The writing thread on its own.
NextCacheWrites ==
    \/ \E key \in CacheKeys, value \in CacheValues, ttl \in TTLs :
          cache_set(key, value, ttl)
    \/ \E key \in CacheKeys : cache_delete(key)
    \/ cache_clear
    \/ cache_evict_expired
    \/ cache_writer_return

SpecCacheWrites == Init /\ [][NextCacheWrites]_vars

\* No chain holds two entries with the same key.
UniqueKeys ==
    \A b \in Buckets : \A i, j \in 1 .. Len(cache_table[b]) :
        cache_table[b][i].key = cache_table[b][j].key => i = j

\* The writing thread makes a call in this step.
WriterCalls == cache_writer.pc = "idle" /\ cache_writer'.pc # "idle"

\* C35: the cache holds at most one entry per key, and cache_get gives the
\* value of the latest cache_set of the key that no cache_delete, cache_clear
\* or eviction has removed since, NULL otherwise: every call of the writing
\* thread completes; after cache_set(k, v) cache_get(k) gives v, after
\* cache_delete(k) it gives NULL, and for the other keys it gives what it
\* gave before; after cache_clear it gives NULL for every key; an eviction
\* changes what it gives only to NULL; and the cache_get of cache_copy_value
\* returns just that.
C35_LastWriteWins ==
    [][/\ UniqueKeys'
       /\ WriterCalls =>
            LET call == cache_writer'
            IN  /\ call.pc = "ret"
                /\ call.op = "cache_set" =>
                     \A k \in CacheKeys :
                        cache_get(k)' = IF k = call.key THEN <<call.value>>
                                                        ELSE cache_get(k)
                /\ call.op = "cache_delete" =>
                     \A k \in CacheKeys :
                        cache_get(k)' = IF k = call.key THEN <<>> ELSE cache_get(k)
                /\ call.op = "cache_clear" =>
                     \A k \in CacheKeys : cache_get(k)' = <<>>
                /\ call.op = "cache_evict_expired" =>
                     \A k \in CacheKeys : cache_get(k)' \in {cache_get(k), <<>>}
       /\ (cache_reader.pc = "idle" /\ cache_reader'.pc # "idle") =>
            \A k \in CacheKeys :
               cache_reader'.key = k => cache_reader'.value = cache_get(k)
      ]_vars

\* cache_copy_value reads the string behind the pointer in this step.
ReadsValue == cache_reader.pc = "copy" /\ cache_reader'.pc # "copy"

\* C36: the pointer cache_get returned stays valid while cache_copy_value
\* reads through it: at the read of lines 277-278 no cache_set, cache_delete,
\* cache_clear or eviction has freed the block, and the copy made is the
\* value cache_get found.
C36_ValueValidWhileRead ==
    [][ReadsValue =>
          /\ ~cache_reader.dangling
          /\ cache_reader'.pc = "ret"
          /\ cache_reader'.copy = cache_reader.value
      ]_vars

\* The entry stored under a key: <<entry>>, or <<>> when there is none.
EntryOf(key) ==
    LET chain == cache_table[cache_hash(key)]
        i     == FindEntry(chain, key)
    IN  IF i = 0 THEN <<>> ELSE <<chain[i]>>

\* The keys whose entry has run out of time.
ExpiredKeys == {k \in CacheKeys : EntryOf(k) # <<>> /\ EntryOf(k)[1].ttl <= 0}

\* The number of entries in the table.
EntryCount == Sum([b \in Buckets |-> Len(cache_table[b])], Buckets)

\* The writing thread runs cache_evict_expired in this step.
Evicts == WriterCalls /\ cache_writer'.op = "cache_evict_expired"

\* C37: cache_evict_expired removes exactly the entries with ttl <= 0,
\* leaves every other entry in place with its key and value and with ttl one
\* less, adds none, and returns the number of entries it removed.  (An entry
\* set with ttl t > 0 is therefore still there after t calls and gone after
\* one more.)
C37_EvictRemovesExactlyExpired ==
    [][Evicts =>
          /\ \A k \in CacheKeys :
                EntryOf(k)' = IF k \in ExpiredKeys \/ EntryOf(k) = <<>>
                              THEN <<>>
                              ELSE <<[EntryOf(k)[1] EXCEPT !.ttl = @ - 1]>>
          /\ EntryCount' = EntryCount - Cardinality(ExpiredKeys)
          /\ cache_writer'.ret = <<Cardinality(ExpiredKeys)>>
      ]_vars

\* An eviction has just removed one of two entries and kept the other one,
\* which had the largest time to live and has one unit less now.
C37_Witness ==
    /\ cache_writer.pc = "ret"
    /\ cache_writer.op = "cache_evict_expired"
    /\ cache_writer.ret = <<1>>
    /\ \E k \in {kA, kOneR} :
          /\ EntryOf(k) # <<>>
          /\ EntryOf(k)[1].ttl = MaxTtl - 1
    /\ EntryCount = 1

\* ------------------------------------------ server/udp_server.c and main.c

sGET_STATUS == <<"G", "E", "T", "_", "S", "T", "A", "T", "U", "S">>
sGET_CONFIG == <<"G", "E", "T", "_", "C", "O", "N", "F", "I", "G">>
sSHUTDOWN == <<"S", "H", "U", "T", "D", "O", "W", "N">>
sShutdownLower == <<"s", "h", "u", "t", "d", "o", "w", "n">>
sShutdownNow == <<"S", "H", "U", "T", "D", "O", "W", "N", "!">>
sExecPrefix == <<"e", "x", "e", "c", ":">>
sShellPrefix == <<"s", "h", "e", "l", "l", ":">>
sAdminReload == <<"A", "D", "M", "I", "N", ":", "r", "e", "l", "o", "a", "d">>
sReceived == <<"R", "e", "c", "e", "i", "v", "e", "d", ":", " ">>
sProcessed == <<" ", "-", " ", "p", "r", "o", "c", "e", "s", "s", "e", "d">>

\* The shortest command that sprintf(temp, "Received: %s", client_data)
\* writes past the end of temp.
LongCommand == Rep("A", TEMP_SIZE - Len(sReceived))

\* The lines gets reads in the main loop.
Commands ==
    {sGET_STATUS, sGET_CONFIG, sSHUTDOWN, sShutdownLower, sShutdownNow,
     sExecPrefix \o sLs, sShellPrefix \o sLs, sAdminReload, <<>>, LongCommand}

\* Lines 48-53 of udp_server.c: strcpy(response_buffer, client_data),
\* sprintf(temp, "Received: %s", client_data) and strcat(response_buffer,
\* " - processed") write their strings and a NUL whatever the sizes of the
\* arrays: past the end of temp or of response_buffer for a long command.
ProcessOverflows(client_data) ==
    \/ Len(client_data) + 1 > RESPONSE_BUFFER_SIZE
    \/ Len(sReceived) + Len(client_data) + 1 > TEMP_SIZE
    \/ Len(client_data) + Len(sProcessed) + 1 > RESPONSE_BUFFER_SIZE

\* int udp_server_process_request(server, client_data), lines 55-86: the
\* value returned and the server record left behind.  The block of lines
\* 64-84 only prints.
udp_server_process_request(server, client_data) ==
    IF client_data = sGET_STATUS THEN [ret |-> 1, server |-> server]
    ELSE IF client_data = sGET_CONFIG THEN [ret |-> 2, server |-> server]
    ELSE IF client_data = sSHUTDOWN
    THEN [ret |-> 0, server |-> [server EXCEPT !.is_running = 0]]
    ELSE [ret |-> -1, server |-> server]

\* main, lines 42-47: udp_server_start (udp_server.c:32-44) sets is_running
\* to 1 when bind succeeds; when it fails main returns 1.
main_start ==
    /\ app.pc = "start"
    /\ \/ /\ g_server' = [g_server EXCEPT !.is_running = 1]
          /\ app' = [app EXCEPT !.pc = "loop"]
       \/ /\ app' = [app EXCEPT !.pc = "exit"]
          /\ UNCHANGED g_server
    /\ UNCHANGED <<connections, conn_mutex, conn_count, fdConn, heap, nextConn,
                   slotConn, caller, worker, observed, wire, cacheVars>>

\* main, line 49: while (g_server.is_running).
main_loop ==
    /\ app.pc = "loop"
    /\ app' = [app EXCEPT !.pc = IF g_server.is_running # 0 THEN "gets" ELSE "exit"]
    /\ UNCHANGED <<connections, conn_mutex, conn_count, fdConn, heap, nextConn,
                   slotConn, caller, worker, observed, wire, cacheVars, g_server>>

\* main, lines 50-52: gets(input).
main_gets ==
    /\ app.pc = "gets"
    /\ Len(app.rets) < MaxCommands
    /\ \E input \in Commands : app' = [app EXCEPT !.pc = "dispatch", !.input = input]
    /\ UNCHANGED <<connections, conn_mutex, conn_count, fdConn, heap, nextConn,
                   slotConn, caller, worker, observed, wire, cacheVars, g_server>>

\* main, lines 54-62: a line that starts with exec: or shell: goes to
\* execute_command or admin_execute, which run it with system() and do not
\* touch g_server; any other line goes to udp_server_process_request, whose
\* result main drops.  A command written past the end of temp or
\* response_buffer is undefined behaviour: the process is killed, or the call
\* goes on.
main_dispatch ==
    /\ app.pc = "dispatch"
    /\ IF HasPrefix(app.input, sExecPrefix) \/ HasPrefix(app.input, sShellPrefix)
       THEN /\ app' = [app EXCEPT !.pc = "loop"]
            /\ UNCHANGED g_server
       ELSE LET done == udp_server_process_request(g_server, app.input)
            IN  \/ /\ g_server' = done.server
                   /\ app' = [app EXCEPT !.pc = "loop", !.rets = Append(@, done.ret)]
                \/ /\ ProcessOverflows(app.input)
                   /\ app' = [app EXCEPT !.pc = "abort"]
                   /\ UNCHANGED g_server
    /\ UNCHANGED <<connections, conn_mutex, conn_count, fdConn, heap, nextConn,
                   slotConn, caller, worker, observed, wire, cacheVars>>

\* The application started with --server.
NextServer == main_start \/ main_loop \/ main_gets \/ main_dispatch

SpecServer == Init /\ [][NextServer]_vars

\* main hands the line it read to udp_server_process_request in this step.
ProcessesRequest ==
    /\ app.pc = "dispatch"
    /\ app' # app
    /\ ~HasPrefix(app.input, sExecPrefix)
    /\ ~HasPrefix(app.input, sShellPrefix)

\* The value the commands are documented to give.
ExpectedReturn(client_data) ==
    CASE client_data = sGET_STATUS -> 1
      [] client_data = sGET_CONFIG -> 2
      [] client_data = sSHUTDOWN -> 0
      [] OTHER -> -1

\* C38: udp_server_process_request returns 1 for GET_STATUS, 2 for
\* GET_CONFIG, 0 for SHUTDOWN and -1 for anything else, and sets is_running
\* to 0 for the exact command SHUTDOWN only; is_running changes in no other
\* step of the loop, so the loop of main ends only after a SHUTDOWN.
C38_OnlyShutdownStopsServer ==
    [][/\ ProcessesRequest =>
            /\ app'.pc = "loop"
            /\ app'.rets = Append(app.rets, ExpectedReturn(app.input))
            /\ g_server'.is_running = IF app.input = sSHUTDOWN
                                      THEN 0 ELSE g_server.is_running
       /\ (app.pc \in {"loop", "gets", "dispatch"} /\ ~ProcessesRequest) =>
            g_server' = g_server
       /\ (app.pc \in {"loop", "gets", "dispatch"}
             /\ app'.pc \notin {"loop", "gets", "dispatch"}) =>
            /\ app.pc = "loop"
            /\ app.input = sSHUTDOWN
      ]_vars

====
